---- MODULE Spec2Model ----
(***************************************************************************)
(* Admin panel (IELTS preparation dashboard).                              *)
(*                                                                         *)
(* Three parts of the client are modelled:                                 *)
(*   - the task payload transformer of ExerciseForm.tsx                    *)
(*     (transformTaskForAPI / normalizeFetchedTask), specification SpecX;  *)
(*   - the auth session of useAuth.tsx on top of apiService.ts             *)
(*     (checkAuth, login, logout, apiFetch, handleResponse), SpecA;        *)
(*   - the save sequence of ExerciseForm.tsx (onSaveExercise and the task  *)
(*     handlers), SpecF.                                                   *)
(*                                                                         *)
(* JavaScript values are represented as follows.  A string whose           *)
(* characters matter (a blank's answers) is a sequence of one-character    *)
(* strings; every other string is an opaque TLA+ string, "" being the      *)
(* empty (falsy) string.  An object is a record; a property that the code  *)
(* tests with || or a truthiness test is represented by its falsy value    *)
(* ("" , 0, << >>, FALSE) when it is undefined; a property whose presence  *)
(* the code or a claim distinguishes from a falsy value is listed in the   *)
(* record's keys field when it is defined.                                 *)
(***************************************************************************)
EXTENDS Integers, Sequences, FiniteSets, TLC

\* ------------------------------------------------------------------ bounds
MaxAnsLen == 2
MaxAnswers == 2
MaxServerId == 2
MaxItems == 2
MaxNewTasks == 2
MaxFetched == 1
MaxSaves == 2

\* --------------------------------------------------------- string helpers
\* The characters of a blank's answer: a letter, the separator, a space.
Chars == {"a", ",", " "}

RECURSIVE StrUpTo(_)
StrUpTo(n) ==
    IF n = 0 THEN {<< >>}
    ELSE LET S == StrUpTo(n - 1)
         IN  S \cup {Append(s, c) : s \in {r \in S : Len(r) = n - 1}, c \in Chars}

RECURSIVE ListsUpTo(_, _)
ListsUpTo(S, n) ==
    IF n = 0 THEN {<< >>}
    ELSE LET L == ListsUpTo(S, n - 1)
         IN  L \cup {Append(l, s) : l \in {r \in L : Len(r) = n - 1}, s \in S}

\* String.prototype.trim
RECURSIVE TrimLeft(_)
TrimLeft(s) ==
    IF s # << >> /\ Head(s) = " " THEN TrimLeft(Tail(s)) ELSE s

RECURSIVE TrimRight(_)
TrimRight(s) ==
    IF s # << >> /\ s[Len(s)] = " " THEN TrimRight(SubSeq(s, 1, Len(s) - 1)) ELSE s

Trim(s) == TrimRight(TrimLeft(s))

\* String.prototype.split(','): "" splits into [""]
RECURSIVE SplitFrom(_, _)
SplitFrom(s, cur) ==
    IF s = << >> THEN << cur >>
    ELSE IF Head(s) = "," THEN << cur >> \o SplitFrom(Tail(s), << >>)
    ELSE SplitFrom(Tail(s), Append(cur, Head(s)))

SplitComma(s) == SplitFrom(s, << >>)

\* Array.prototype.map(ans => ans.trim())
MapTrim(l) == [i \in 1..Len(l) |-> Trim(l[i])]

\* Array.prototype.filter(Boolean) on strings
FilterBoolean(l) == SelectSeq(l, LAMBDA s : s # << >>)

\* Array.prototype.join(', ')
RECURSIVE JoinCommaSpace(_)
JoinCommaSpace(l) ==
    IF l = << >> THEN << >>
    ELSE IF Len(l) = 1 THEN l[1]
    ELSE l[1] \o << ",", " " >> \o JoinCommaSpace(Tail(l))

\* String(x).split(',').map(trim).filter(Boolean)
ParseAnswers(s) == FilterBoolean(MapTrim(SplitComma(s)))

\* ------------------------------------------------------------ task values
\* The six tags of TaskType (types.ts) and two tags outside it: a legacy
\* capitalised tag and a tag already in API spelling.
KnownTags == {"MCQ", "Filling Blanks", "Matching", "QA", "Writing", "Speaking"}
LegacyTags == {"Essay", "mcq"}
ApiTypes == {"mcq", "filling_blanks", "matching", "qa", "writing", "speaking"}

\* String.prototype.toLowerCase on the type strings that occur
toLowerCase(s) ==
    CASE s = "MCQ" -> "mcq"
      [] s = "Filling Blanks" -> "filling blanks"
      [] s = "Matching" -> "matching"
      [] s = "QA" -> "qa"
      [] s = "Writing" -> "writing"
      [] s = "Speaking" -> "speaking"
      [] s = "Essay" -> "essay"
      [] OTHER -> s

\* taskTypeMap without the entry of Filling Blanks
taskTypeMap_NoBlanks(tag) ==
    CASE tag = "MCQ" -> "mcq"
      [] tag = "Matching" -> "matching"
      [] tag = "QA" -> "qa"
      [] tag = "Writing" -> "writing"
      [] tag = "Speaking" -> "speaking"
      [] OTHER -> ""

\* taskTypeMap[tag], "" when the tag is not a key of the map
taskTypeMap(tag) ==
    CASE tag = "MCQ" -> "mcq"
      [] tag = "Filling Blanks" -> "filling_blanks"
      [] tag = "Matching" -> "matching"
      [] tag = "QA" -> "qa"
      [] tag = "Writing" -> "writing"
      [] tag = "Speaking" -> "speaking"
      [] OTHER -> ""

\* API_TO_UI_TASK_TYPE[type], "" when the type is not a key of the map
API_TO_UI_TASK_TYPE(type) ==
    CASE type = "mcq" -> "MCQ"
      [] type = "filling_blanks" -> "Filling Blanks"
      [] type = "matching" -> "Matching"
      [] type = "qa" -> "QA"
      [] type = "writing" -> "Writing"
      [] type = "speaking" -> "Speaking"
      [] OTHER -> ""

\* a || b on strings and on numbers
OrStr(a, b) == IF a # "" THEN a ELSE b
OrNum(a, b) == IF a # 0 THEN a ELSE b

\* The constructor of a local task: every property of the Task union, the
\* undefined ones at their falsy value.  keys lists which of apiId,
\* questions and answers are defined.
MkTask(id, keys, apiId, tag, title, description, allowedTime) ==
    [id |-> id, keys |-> keys, apiId |-> apiId, taskType |-> tag,
     title |-> title, description |-> description, allowedTime |-> allowedTime,
     minimumWordCount |-> 0, maxWords |-> 0, maxWordsPerBlank |-> 0,
     maxWordsPerAnswer |-> 0, allowMultipleSelections |-> FALSE,
     group1 |-> << >>, group2 |-> << >>, answers |-> << >>,
     questions |-> << >>, blanks |-> << >>]

\* A question of an MCQ task or a prompt of a QA/Writing/Speaking task.
\* hasAM tells whether the question carries its own allowMultipleSelections.
MkQuestion(questionText, value, hasAM, am, options) ==
    [questionText |-> questionText, value |-> value, hasAM |-> hasAM,
     allowMultipleSelections |-> am, options |-> options]

MkOption(value, isCorrect) == [value |-> value, isCorrect |-> isCorrect]

MkBlank(questionText, textBefore, correctAnswers, correctAnswer, position) ==
    [questionText |-> questionText, textBefore |-> textBefore,
     correctAnswers |-> correctAnswers, correctAnswer |-> correctAnswer,
     position |-> position]

\* A group entry is an object {value} (obj) or, after a fetch, a bare string.
MkGroup(obj, value) == [obj |-> obj, value |-> value]

\* ----------------------------------------------------------- wire values
CommonKeys == {"exercise_id", "type", "title", "description", "allowed_time"}

\* The payload of POST/PUT /tasks and the task object the server returns.
EmptyWire ==
    [keys |-> {}, exercise_id |-> 0, type |-> "", title |-> "",
     description |-> "", allowed_time |-> 0, task_id |-> 0, id |-> 0,
     mcqs |-> << >>, filling_blanks |-> << >>, max_words |-> 0,
     min_words |-> 0, max_words_per_blank |-> 0, allow_multiple |-> FALSE,
     group1 |-> << >>, group2 |-> << >>, answers |-> << >>,
     question_prompts |-> << >>]

\* ------------------------------------------------- transformTaskForAPI
\* q.allowMultipleSelections ?? task.allowMultipleSelections, then !!
McqToApi(task, q) ==
    [question_text |-> q.questionText,
     allow_multiple |-> IF q.hasAM THEN q.allowMultipleSelections
                        ELSE task.allowMultipleSelections,
     options |-> [i \in 1..Len(q.options) |->
                    [option_text |-> q.options[i].value,
                     is_true |-> q.options[i].isCorrect]]]

\* the string form only: answers given as an array are ignored
BlankAnswersArray_StringOnly(b) ==
    IF b.correctAnswer # << >> THEN ParseAnswers(b.correctAnswer) ELSE << >>

BlankAnswersArray(b) ==
    IF b.correctAnswers # << >> THEN b.correctAnswers
    ELSE IF b.correctAnswer # << >> THEN ParseAnswers(b.correctAnswer)
    ELSE << >>

BlankToApi(b, index) ==
    [question_text |-> OrStr(b.questionText, b.textBefore),
     correct_answer |-> JoinCommaSpace(BlankAnswersArray(b)),
     position |-> OrNum(b.position, index + 1)]

\* GroupToApi with the bare strings dropped
GroupToApi_ObjectsOnly(g) ==
    LET objs == SelectSeq(g, LAMBDA e : e.obj)
    IN  [i \in 1..Len(objs) |-> objs[i].value]

\* (group || []).map(g => typeof g === 'object' ? g.value : g)
GroupToApi(g) == [i \in 1..Len(g) |-> g[i].value]

PromptsToApi(qs) == [i \in 1..Len(qs) |-> OrStr(qs[i].value, qs[i].questionText)]

\* Number(undefined)
NaN == -1

\* if (task.apiId): undefined, 0 and NaN are falsy
HasApiId(task) == "apiId" \in task.keys /\ task.apiId # 0 /\ task.apiId # NaN

transformTaskForAPI(task, exerciseId) ==
    LET resolvedType == OrStr(taskTypeMap(task.taskType), toLowerCase(task.taskType))
        base == [EmptyWire EXCEPT
                   !.keys = CommonKeys,
                   !.exercise_id = exerciseId,
                   !.type = resolvedType,
                   !.title = task.title,
                   !.description = task.description,
                   !.allowed_time = task.allowedTime]
        withId == IF HasApiId(task)
                  THEN [base EXCEPT !.keys = @ \cup {"task_id"}, !.task_id = task.apiId]
                  ELSE base
        hasQ == "questions" \in task.keys
        hasA == "answers" \in task.keys
    IN  CASE resolvedType = "mcq" ->
               [withId EXCEPT
                  !.keys = @ \cup {"mcqs"},
                  !.mcqs = [i \in 1..Len(task.questions) |-> McqToApi(task, task.questions[i])]]
          [] resolvedType = "filling_blanks" ->
               [withId EXCEPT
                  !.keys = @ \cup {"filling_blanks"}
                             \cup (IF task.maxWordsPerBlank # 0 THEN {"max_words"} ELSE {}),
                  !.max_words = task.maxWordsPerBlank,
                  !.filling_blanks = [i \in 1..Len(task.blanks) |-> BlankToApi(task.blanks[i], i - 1)]]
          [] resolvedType = "matching" ->
               [withId EXCEPT
                  !.keys = @ \cup {"group1", "group2"}
                             \cup (IF hasA THEN {"answers"} ELSE {}),
                  !.group1 = GroupToApi(task.group1),
                  !.group2 = GroupToApi(task.group2),
                  !.answers = IF hasA THEN task.answers ELSE << >>]
          [] resolvedType = "qa" ->
               [withId EXCEPT
                  !.keys = @ \cup {"question_prompts"}
                             \cup (IF task.maxWordsPerAnswer # 0 THEN {"max_words"} ELSE {})
                             \cup (IF task.minimumWordCount # 0 THEN {"min_words"} ELSE {})
                             \cup (IF hasA THEN {"answers"} ELSE {}),
                  !.question_prompts = PromptsToApi(task.questions),
                  !.max_words = task.maxWordsPerAnswer,
                  !.min_words = task.minimumWordCount,
                  !.answers = IF hasA THEN task.answers ELSE << >>]
          [] resolvedType = "writing" ->
               [withId EXCEPT
                  !.keys = @ \cup (IF task.minimumWordCount # 0 THEN {"min_words"} ELSE {})
                             \cup (IF task.maxWords # 0 THEN {"max_words"} ELSE {})
                             \cup (IF hasQ THEN {"question_prompts"} ELSE {}),
                  !.min_words = task.minimumWordCount,
                  !.max_words = task.maxWords,
                  !.question_prompts = IF hasQ THEN PromptsToApi(task.questions) ELSE << >>]
          [] resolvedType = "speaking" ->
               [withId EXCEPT
                  !.keys = @ \cup (IF hasQ THEN {"question_prompts"} ELSE {}),
                  !.question_prompts = IF hasQ THEN PromptsToApi(task.questions) ELSE << >>]
          [] OTHER -> withId

\* ------------------------------------------------- normalizeFetchedTask
\* t.task_id || t.id
FetchedId(t) == OrNum(t.task_id, t.id)

McqFromApi(mcq) ==
    MkQuestion(mcq.question_text, "", TRUE, mcq.allow_multiple,
               [i \in 1..Len(mcq.options) |->
                  MkOption(mcq.options[i].option_text, mcq.options[i].is_true)])

\* BlankFromApi without the trim of the entries
BlankFromApi_NoTrim(blank, index) ==
    LET answerList == IF blank.correct_answer # << >>
                      THEN FilterBoolean(SplitComma(blank.correct_answer))
                      ELSE << >>
    IN  MkBlank(blank.question_text, "", answerList, JoinCommaSpace(answerList),
                OrNum(blank.position, index + 1))

BlankFromApi(blank, index) ==
    LET answerList == IF blank.correct_answer # << >>
                      THEN ParseAnswers(blank.correct_answer)
                      ELSE << >>
    IN  MkBlank(blank.question_text, "", answerList, JoinCommaSpace(answerList),
                OrNum(blank.position, index + 1))

PromptFromApi(prompt) == MkQuestion("", prompt, FALSE, FALSE, << >>)

GroupFromApi(g) == [i \in 1..Len(g) |-> MkGroup(FALSE, g[i])]

normalizeFetchedTask(t) ==
    LET resolvedType == OrStr(OrStr(API_TO_UI_TASK_TYPE(toLowerCase(t.type)), t.type),
                              "Matching")
        fid == FetchedId(t)
        baseTask == [MkTask(IF fid # 0 THEN ToString(fid) ELSE "undefined",
                            {"apiId", "answers"},
                            IF fid # 0 THEN fid ELSE NaN,
                            resolvedType, t.title, t.description, t.allowed_time)
                     EXCEPT
                       !.minimumWordCount = t.min_words,
                       !.maxWords = t.max_words,
                       !.maxWordsPerBlank = OrNum(t.max_words_per_blank, t.max_words),
                       !.allowMultipleSelections = t.allow_multiple,
                       !.group1 = GroupFromApi(t.group1),
                       !.group2 = GroupFromApi(t.group2),
                       !.answers = t.answers]
    IN  CASE resolvedType = "MCQ" ->
               [baseTask EXCEPT
                  !.keys = @ \cup {"questions"},
                  !.questions = [i \in 1..Len(t.mcqs) |-> McqFromApi(t.mcqs[i])]]
          [] resolvedType = "Filling Blanks" ->
               [baseTask EXCEPT
                  !.blanks = [i \in 1..Len(t.filling_blanks) |->
                                BlankFromApi(t.filling_blanks[i], i - 1)],
                  !.maxWordsPerBlank = OrNum(t.max_words, t.max_words_per_blank)]
          [] resolvedType \in {"QA", "Writing", "Speaking"} ->
               [baseTask EXCEPT
                  !.keys = @ \cup {"questions"},
                  !.questions = [i \in 1..Len(t.question_prompts) |->
                                   PromptFromApi(t.question_prompts[i])],
                  !.maxWordsPerAnswer = t.max_words,
                  !.minimumWordCount = t.min_words]
          [] OTHER -> baseTask

\* ---------------------------------------------------------------- state
VARIABLES
    xTask,      \* the local task handed to transformTaskForAPI
    xExId,      \* the exercise id handed to transformTaskForAPI
    xPayload,   \* the payload transformTaskForAPI returned
    xFetched,   \* the task object the server returns for it
    xNorm,      \* the task normalizeFetchedTask made of it
    xpc,        \* "off", "task", "sent", "stored", "done"
    token,      \* localStorage authToken, "" when there is none
    storedUser, \* whether localStorage holds a cached user
    currentUser,\* AuthProvider state: "null" or the role of the user
    isLoading,  \* AuthProvider state
    req,        \* per caller of the backend: the call in progress
    props,      \* ExerciseForm props: isEditing, moduleType, editId
    exerciseId, passageId, imageId, recordingId,   \* ExerciseForm state
    initialPassageText, selectedImageFile, selectedRecordingFile,
    currentTasks, pendingTasksToUpload, isSaving, isFetching,
    formOpen,   \* the parent shows the form (onClose has not been called)
    alertMsg,   \* the last alert shown: "", "title", "tasks", "failed", "saved"
    uuids,      \* how many ids crypto.randomUUID has made
    sv,         \* the running or last onSaveExercise: its locals and position
    fnet,       \* the request onSaveExercise awaits
    log,        \* the requests the running or last onSaveExercise sent
    createdExercises,  \* how many POST /exercises have succeeded
    createdTasks       \* the local ids of the tasks whose POST /tasks succeeded

VARIABLES
    page,       \* the page that is mounted, "none" when none of the pages below
    srv,        \* the backend: the ids of the stored configs, modules, promos
    ec,         \* EmailConfigs with its EmailConfigForm: state and calls
    af,         \* one call of apiFetch: its arguments, request and result
    nav,        \* LoggedInApp and its Sidebar: mounted, activePage, submenu
    iq,         \* Inquiries: state, calls in flight and the backend's tickets
    pm,         \* PromoModules: state and calls
    mm,         \* ModulesManagement with its module form: state and calls
    um,         \* AddUserModal: state and the call of onAddUser
    ex,         \* ModulesManagement: the exercise view and its fetches
    rm,         \* ExerciseForm: the calls of handleRemoveTask
    df          \* one call of an email API function that uses fetch itself

xvars == << xTask, xExId, xPayload, xFetched, xNorm, xpc >>
avars == << token, storedUser, currentUser, isLoading, req >>
fvars == << props, exerciseId, passageId, imageId, recordingId, initialPassageText,
           selectedImageFile, selectedRecordingFile, currentTasks,
           pendingTasksToUpload, isSaving, isFetching, formOpen, alertMsg, uuids,
           sv, fnet, log, createdExercises, createdTasks >>
pvars == << page, srv, ec, af, nav, iq, pm, mm, um, ex, rm, df >>
vars == << xvars, avars, fvars, pvars >>

\* ------------------------------------------- inputs of the transformer
Txt(s) == {"", s}
Num(n) == {0, n}
ExerciseIds == {1, 2}
ServerIds == 0..MaxServerId

\* apiId undefined, or any id the server may have given
WithApiId(t) ==
    {t} \cup {[t EXCEPT !.keys = @ \cup {"apiId"}, !.apiId = i] : i \in ServerIds}

Options == ListsUpTo({MkOption(v, c) : v \in Txt("o"), c \in BOOLEAN}, MaxItems)

McqQuestions ==
    {MkQuestion(qt, "", h, a, o) :
        qt \in Txt("q"), h \in BOOLEAN, a \in BOOLEAN, o \in Options}

Prompts ==
    ListsUpTo({MkQuestion(qt, v, FALSE, FALSE, << >>) : qt \in Txt("r"), v \in Txt("p")},
              MaxItems)

Groups == ListsUpTo({MkGroup(o, v) : o \in BOOLEAN, v \in {"g", "h"}}, MaxItems)

AnswerStrings == StrUpTo(MaxAnsLen)

\* a blank in array form (correctAnswers) or in string form (correctAnswer)
Blanks ==
    {MkBlank(qt, tb, l, << >>, pos) :
        qt \in Txt("q"), tb \in Txt("b"), l \in ListsUpTo(AnswerStrings, MaxAnswers),
        pos \in 0..2}
    \cup
    {MkBlank(qt, "", << >>, s, pos) :
        qt \in Txt("q"), s \in StrUpTo(MaxAnsLen + 1), pos \in 0..2}

FewBlanks ==
    {MkBlank("q", "", l, s, pos) :
        l \in {<< >>, << <<"a">> >>}, s \in {<< >>, <<"a", ",", "a">>}, pos \in {0, 2}}

Base(tag) == MkTask("local", {}, 0, tag, "t", "d", 40)

\* every tag with every choice of the common fields
CommonInputs ==
    UNION {WithApiId([Base(tag) EXCEPT !.title = ti, !.description = d, !.allowedTime = a]) :
             tag \in KnownTags \cup LegacyTags, ti \in Txt("t"), d \in Txt("d"), a \in Num(40)}

McqInputs ==
    {[Base("MCQ") EXCEPT !.keys = {"questions"}, !.allowMultipleSelections = am,
                         !.questions = qs] :
        am \in BOOLEAN, qs \in ListsUpTo(McqQuestions, 1)}

BlankInputs ==
    {[Base("Filling Blanks") EXCEPT !.maxWordsPerBlank = m, !.blanks = << b >>] :
        m \in Num(3), b \in Blanks}
    \cup
    {[Base("Filling Blanks") EXCEPT !.blanks = bs] : bs \in ListsUpTo(FewBlanks, 2)}

AnswerOpts(t) ==
    {t} \cup {[t EXCEPT !.keys = @ \cup {"answers"}, !.answers = a] :
                a \in {<< >>, << "g-h" >>}}

MatchingInputs ==
    UNION {AnswerOpts([Base("Matching") EXCEPT !.group1 = g1, !.group2 = g2]) :
             g1 \in Groups, g2 \in ListsUpTo({MkGroup(TRUE, "h")}, MaxItems)}

QAInputs ==
    UNION {AnswerOpts([Base("QA") EXCEPT !.keys = {"questions"}, !.questions = qs,
                                         !.maxWordsPerAnswer = mx,
                                         !.minimumWordCount = mn]) :
             qs \in Prompts, mx \in Num(5), mn \in Num(2)}

WritingInputs ==
    {[Base("Writing") EXCEPT !.minimumWordCount = mn, !.maxWords = mx] :
        mn \in Num(2), mx \in Num(9)}
    \cup
    {[Base("Writing") EXCEPT !.keys = {"questions"}, !.questions = qs,
                             !.minimumWordCount = mn, !.maxWords = mx] :
        qs \in Prompts, mn \in Num(2), mx \in Num(9)}

SpeakingInputs ==
    {Base("Speaking")}
    \cup
    {[Base("Speaking") EXCEPT !.keys = {"questions"}, !.questions = qs] : qs \in Prompts}

TaskInputs ==
    CommonInputs \cup McqInputs \cup BlankInputs \cup MatchingInputs
                 \cup QAInputs \cup WritingInputs \cup SpeakingInputs

NoTask == MkTask("", {}, 0, "", "", "", 0)

IdleX ==
    /\ xTask = NoTask
    /\ xExId = 0
    /\ xPayload = EmptyWire
    /\ xFetched = EmptyWire
    /\ xNorm = NoTask
    /\ xpc = "off"

\* ----------------------------------------------- ExerciseForm: values
ModuleTypes == {"Reading", "Writing", "Listening", "Speaking"}

\* Date.now(), the temporary exercise id of a new exercise
TempExerciseId == 1000
\* the id of the exercise being edited
EditExerciseId == 5

\* the locals of onSaveExercise; pc is "idle", "running", "failed" or
\* "succeeded", plan the requests it will await in order, i the one awaited
IdleSv ==
    [pc |-> "idle", n |-> 0, plan |-> << >>, i |-> 0, exerciseTitle |-> << >>,
     trimmedPassage |-> "",
     finalPassageId |-> 0, finalImageId |-> 0, finalRecordingId |-> 0,
     finalExerciseId |-> 0, tasks |-> << >>]

IdleNet == [st |-> "idle", resp |-> [status |-> 0, id |-> 0]]

IdleF ==
    /\ props = [isEditing |-> FALSE, moduleType |-> "Reading", editId |-> 0]
    /\ exerciseId = 0 /\ passageId = 0 /\ imageId = 0 /\ recordingId = 0
    /\ initialPassageText = ""
    /\ selectedImageFile = FALSE /\ selectedRecordingFile = FALSE
    /\ currentTasks = << >> /\ pendingTasksToUpload = << >>
    /\ isSaving = FALSE /\ isFetching = FALSE /\ formOpen = FALSE
    /\ alertMsg = "" /\ uuids = 0
    /\ sv = IdleSv /\ fnet = IdleNet /\ log = << >>
    /\ createdExercises = 0 /\ createdTasks = << >>

\* ------------------------------------------------- the pages: values
\* A call of a handler to the backend: pc is "idle", "mut" (the create,
\* update or delete request is awaited), "mutAns" (it has been answered),
\* "list" (the list fetch is awaited) or "listAns"; kind is the handler's
\* request, id its target, payload what it sends, ok and list the answer.
NoCall ==
    [pc |-> "idle", kind |-> "", id |-> 0, payload |-> << >>, ok |-> FALSE, list |-> {}]

ListCall == [NoCall EXCEPT !.pc = "list", !.kind = "load"]

NoSrv == [configs |-> {}, modules |-> {}, promos |-> {}]

\* EmailConfigs and EmailConfigForm before the page is mounted: the useState
\* initial values; error, success and alert are "" when there is none,
\* editingConfig is 0 when undefined.  submitted counts the calls of
\* handleSubmit, requests the create and update requests sent, outcome
\* tells how the last call of handleSaveConfig ended.
IdleEc ==
    [configs |-> {}, isLoading |-> TRUE, error |-> "", success |-> "",
     isModalOpen |-> FALSE, editingConfig |-> 0, provider_config |-> << >>,
     isSubmitting |-> FALSE, alert |-> "", load |-> NoCall, op |-> NoCall,
     submitted |-> 0, requests |-> 0, outcome |-> ""]

\* ------------------------------------------------- more pages: values
MaxPromos == 2
MaxDeletes == 2
MaxModules == 2

\* PromoModules before it is mounted; closure[k] is the promos of the
\* render in which delete call k was started
IdlePm ==
    [promos |-> {}, isLoading |-> TRUE, alert |-> "", load |-> NoCall,
     dels |-> [k \in 1..MaxDeletes |-> NoCall],
     closure |-> [k \in 1..MaxDeletes |-> {}]]

\* ModulesManagement before it is mounted; moduleBeingEdited is 0 when
\* null, type is the module name of moduleFormState
IdleMm ==
    [modules |-> {}, modulesLoading |-> TRUE, modulesError |-> "",
     isModuleFormOpen |-> FALSE, moduleBeingEdited |-> 0, type |-> << >>,
     moduleFormSubmitting |-> FALSE, moduleFormError |-> "", alert |-> "",
     load |-> NoCall, op |-> NoCall, del |-> NoCall,
     submitted |-> 0, outcome |-> ""]

\* AddUserModal before it is shown; pc is "idle", "called" (onAddUser is
\* awaited) or "settled", answer what onAddUser settled with
IdleUm ==
    [isOpen |-> FALSE, submissionError |-> "", isSubmitting |-> FALSE,
     pc |-> "idle", answer |-> "", submitted |-> 0, outcome |-> ""]

\* the exercise view of ModulesManagement: selectedModule is 0 when null;
\* calls are the calls of fetchExercises, each "sent", "ok", "failed" or
\* "done", with the list the backend answered
IdleEx ==
    [selectedModule |-> 0, exercises |-> << >>, exercisesLoading |-> FALSE,
     exercisesError |-> "", calls |-> << >>]

\* the calls of handleRemoveTask that reached DELETE /tasks/{apiId}, each
\* "sent", "ok" or "failed"; removed are the ids of the tasks taken off
\* the lists
IdleRm == [calls |-> << >>, removed |-> {}]

\* a call of createConfig, createTemplate or sendTestEmail: the function,
\* localStorage, the headers of the request, the response, the outcome
IdleDf ==
    [pc |-> "off", fn |-> "", token |-> "", storedUser |-> FALSE,
     optional |-> FALSE, headers |-> [k \in {} |-> ""], status |-> 0,
     message |-> "", threw |-> FALSE, error |-> ""]

\* ----------------------------------------------------- Inquiries: values
MaxInquiries == 2
MaxDetails == 2
MaxReplies == 2
MaxLoads == 2

InquiryIds == 1..MaxInquiries

\* a ticket: its status and its reply (<< >> is null)
Ticket(status, reply) == [status |-> status, reply |-> reply]
Submitted == Ticket("submitted", << >>)

\* selectedInquiry: id 0 is null
NoSelection == [id |-> 0, status |-> "", reply |-> << >>]

\* a call of fetchInquiryDetails and the call of submitReply
NoDetails == [pc |-> "idle", id |-> 0, ok |-> FALSE, form |-> Submitted]
NoReply == [pc |-> "idle", id |-> 0, msg |-> << >>, answer |-> "", form |-> Submitted]

IdleIq ==
    [server |-> [i \in InquiryIds |-> Submitted],
     inquiries |-> [i \in {} |-> Submitted],
     loading |-> TRUE, error |-> "",
     selectedInquiry |-> NoSelection,
     replyMessage |-> << >>, submitting |-> FALSE, replyError |-> "",
     load |-> "idle", loaded |-> [i \in {} |-> Submitted], loads |-> 0,
     details |-> [k \in 1..MaxDetails |-> NoDetails],
     reply |-> NoReply,
     requests |-> 0, replied |-> {}]

\* --------------------------------------------------- LoggedInApp: values
\* LoggedInApp is not rendered
NoNav == [mounted |-> FALSE, activePage |-> "", isExercisesExpanded |-> FALSE]

\* useState of LoggedInApp and of its Sidebar
MountedNav == [mounted |-> TRUE, activePage |-> "Dashboard", isExercisesExpanded |-> FALSE]

\* ------------------------------------------------------ apiFetch: values
\* a property of a parsed body: absent, a string, an array of strings or
\* an object (json is then its JSON text)
Absent == [kind |-> "absent", str |-> "", items |-> << >>]
StrVal(str) == [kind |-> "string", str |-> str, items |-> << >>]
ArrVal(items) == [kind |-> "array", str |-> "", items |-> items]
ObjVal(json) == [kind |-> "object", str |-> json, items |-> << >>]

\* the parsed body of a response: null (JSON that does not parse), a text
\* (content type other than JSON) or an object
NullBody == [kind |-> "null", message |-> Absent, error |-> Absent, detail |-> Absent]
TextBody == [NullBody EXCEPT !.kind = "text"]
ObjBody(m, e, d) == [kind |-> "object", message |-> m, error |-> e, detail |-> d]

NoHeaders == [k \in {} |-> ""]

IdleH ==
    [pc |-> "off", token |-> "", options |-> [body |-> "none", headers |-> NoHeaders],
     config |-> [body |-> "none", headers |-> NoHeaders, credentials |-> ""],
     response |-> [status |-> 0, statusText |-> "", data |-> NullBody],
     result |-> [threw |-> FALSE, message |-> "", status |-> 0, data |-> NullBody],
     removed |-> FALSE]

IdleP ==
    /\ page = "none"
    /\ srv = NoSrv
    /\ ec = IdleEc
    /\ af = IdleH
    /\ nav = NoNav
    /\ iq = IdleIq
    /\ pm = IdlePm
    /\ mm = IdleMm
    /\ um = IdleUm
    /\ ex = IdleEx
    /\ rm = IdleRm
    /\ df = IdleDf

\* ------------------------------------------------------ the auth session
\* toLowerCase on the role strings that occur
lowerRole(role) ==
    CASE role = "SuperAdmin" -> "superadmin"
      [] role = "Admin" -> "admin"
      [] role = "EDITOR" -> "editor"
      [] OTHER -> role

normalizeRole(role) ==
    IF role = "" THEN "User"
    ELSE CASE lowerRole(role) = "superadmin" -> "SuperAdmin"
           [] lowerRole(role) = "admin" -> "Admin"
           [] lowerRole(role) = "editor" -> "Editor"
           [] lowerRole(role) = "user" -> "User"
           [] OTHER -> "User"

\* role strings a profile may carry; "" is a missing role
RawRoles == {"SuperAdmin", "admin", "EDITOR", "user", "manager", ""}
StaffRoles == {"SuperAdmin", "Admin", "Editor"}

\* what App renders
View ==
    IF isLoading THEN "Loading"
    ELSE IF currentUser = "null" THEN "LoginPage"
    ELSE IF currentUser \in StaffRoles THEN "LoggedInApp"
    ELSE "LoginPage"

\* The callers of apiFetch: checkAuth, login, and any call a page of
\* LoggedInApp makes.
ApiFetchCallers == {"checkAuth", "login", "page"}

\* A response.  status 0 is a fetch that rejects (no response at all); kind
\* tells the parsed body: "null" (JSON that does not parse), "text" (a body
\* that is not JSON), "error" (an error body), "user" (a profile with role),
\* "login" (the login envelope, where user is "none" or the role of the
\* user object and tok is "" when missing).
MkResp(status, kind, code, st, tok, user) ==
    [status |-> status, kind |-> kind, code |-> code, st |-> st, tok |-> tok,
     user |-> user]

NoResp == MkResp(0, "null", 0, "", "", "none")

ErrorResps ==
    {MkResp(s, "error", 0, "", "", "none") : s \in {0, 401, 500}}

ProfileResps ==
    {MkResp(200, "user", 0, "", "", r) : r \in RawRoles}
    \cup {MkResp(200, k, 0, "", "", "none") : k \in {"null", "text"}}

LoginResps ==
    {MkResp(200, "login", c, st, tok, u) :
        c \in {200, 400}, st \in {"success", "error"}, tok \in {"", "tokB"},
        u \in {"none", "admin", "user"}}
    \cup {MkResp(200, "null", 0, "", "", "none")}

PageResps == {MkResp(200, "null", 0, "", "", "none")}

RespsFor(c) ==
    ErrorResps \cup (CASE c = "checkAuth" -> ProfileResps
                       [] c = "login" -> LoginResps
                       [] OTHER -> PageResps)

\* A call: st is "idle", "sent" (awaiting the response), "answered" (the
\* response has arrived) or "done" (the caller has handled it); sends
\* counts the fetches issued for the call, removes the calls of
\* removeToken made while handling its response; threw tells whether the
\* caller's promise rejected.
IdleReq == [st |-> "idle", resp |-> NoResp, sends |-> 0, removes |-> 0, threw |-> FALSE]

\* HandleResponse without the removeToken of the 401 branch
HandleResponse_NoClear(resp) ==
    [threw |-> resp.status = 0 \/ resp.status \notin 200..299, cleared |-> FALSE]

\* handleResponse, preceded by the fetch that may reject: whether it
\* throws, and whether it calls removeToken
HandleResponse(resp) ==
    [threw |-> resp.status = 0 \/ resp.status \notin 200..299,
     cleared |-> resp.status # 0 /\ resp.status \notin 200..299 /\ resp.status = 401]

IdleA ==
    /\ token = ""
    /\ storedUser = FALSE
    /\ currentUser = "null"
    /\ isLoading = TRUE
    /\ req = [c \in ApiFetchCallers |-> IdleReq]

\* the page loads: localStorage is whatever an earlier visit left
InitA ==
    /\ token \in {"", "tokA"}
    /\ storedUser \in BOOLEAN
    /\ currentUser = "null"
    /\ isLoading = TRUE
    /\ req = [c \in ApiFetchCallers |-> IdleReq]
    /\ IdleX
    /\ IdleF
    /\ IdleP

\* apiFetch up to its await: one fetch is issued
Issue(c) == [IdleReq EXCEPT !.st = "sent", !.sends = 1]

\* the same without the early return when no token is stored
CheckAuthStart_AlwaysFetch ==
    /\ req["checkAuth"].st = "idle"
    /\ isLoading' = TRUE
    /\ req' = [req EXCEPT !["checkAuth"] = Issue("checkAuth")]
    /\ UNCHANGED << currentUser, token, storedUser, xvars, fvars, pvars >>

\* useEffect -> checkAuth, up to the await of apiFetch('/users/me')
CheckAuthStart ==
    /\ req["checkAuth"].st = "idle"
    /\ IF token = ""
       THEN /\ currentUser' = "null"
            /\ isLoading' = FALSE
            /\ req' = [req EXCEPT !["checkAuth"] = [IdleReq EXCEPT !.st = "done"]]
       ELSE /\ isLoading' = TRUE
            /\ req' = [req EXCEPT !["checkAuth"] = Issue("checkAuth")]
            /\ UNCHANGED currentUser
    /\ UNCHANGED << token, storedUser, xvars, fvars, pvars >>

\* the backend answers a call, or the fetch fails
Respond(c) ==
    /\ req[c].st = "sent"
    /\ \E r \in RespsFor(c) : req' = [req EXCEPT ![c].st = "answered", ![c].resp = r]
    /\ UNCHANGED << token, storedUser, currentUser, isLoading, xvars, fvars, pvars >>

\* checkAuth from the await on: handleResponse, then try / catch / finally
CheckAuthResume ==
    /\ req["checkAuth"].st = "answered"
    /\ LET r == req["checkAuth"].resp
           h == HandleResponse(r)
           \* userData.id throws on a null body; a text body has no role
           failed == h.threw \/ r.kind = "null"
           n == (IF h.cleared THEN 1 ELSE 0) + (IF failed THEN 1 ELSE 0)
       IN  /\ currentUser' = IF failed THEN "null"
                          ELSE normalizeRole(IF r.kind = "user" THEN r.user ELSE "")
           /\ token' = IF n > 0 THEN "" ELSE token
           /\ storedUser' = IF n > 0 THEN FALSE ELSE storedUser
           /\ req' = [req EXCEPT !["checkAuth"].st = "done",
                                 !["checkAuth"].removes = n,
                                 !["checkAuth"].threw = FALSE]
    /\ isLoading' = FALSE
    /\ UNCHANGED << xvars, fvars, pvars >>

\* LoginPage calls login, up to the await of apiFetch('/auth/login')
LoginStart ==
    /\ View = "LoginPage"
    /\ req["login"].st \in {"idle", "done"}
    /\ req' = [req EXCEPT !["login"] = Issue("login")]
    /\ UNCHANGED << token, storedUser, currentUser, isLoading, xvars, fvars, pvars >>

\* the same without the test of the user object
LoginSucceeds_NoUserTest(r) ==
    /\ ~HandleResponse(r).threw
    /\ r.kind = "login"
    /\ r.code = 200 /\ r.st = "success"
    /\ r.tok # ""

LoginSucceeds(r) ==
    /\ ~HandleResponse(r).threw
    /\ r.kind = "login"
    /\ r.code = 200 /\ r.st = "success"
    /\ r.tok # ""
    /\ r.user # "none"

\* login from the await on
LoginResume ==
    /\ req["login"].st = "answered"
    /\ LET r == req["login"].resp
           h == HandleResponse(r)
       IN  IF LoginSucceeds(r)
           THEN /\ token' = r.tok
                /\ currentUser' = normalizeRole(r.user)
                /\ req' = [req EXCEPT !["login"].st = "done", !["login"].threw = FALSE]
                /\ UNCHANGED storedUser
           ELSE /\ token' = IF h.cleared THEN "" ELSE token
                /\ storedUser' = IF h.cleared THEN FALSE ELSE storedUser
                /\ req' = [req EXCEPT !["login"].st = "done", !["login"].threw = TRUE,
                                      !["login"].removes = IF h.cleared THEN 1 ELSE 0]
                /\ UNCHANGED currentUser
    /\ UNCHANGED << isLoading, xvars, fvars, pvars >>

\* logout: the state is cleared and window.location.href = '/' loads the
\* application anew, which drops every call in progress
Logout ==
    /\ View = "LoggedInApp"
    /\ currentUser' = "null"
    /\ token' = ""
    /\ storedUser' = FALSE
    /\ isLoading' = TRUE
    /\ req' = [c \in ApiFetchCallers |-> IdleReq]
    /\ UNCHANGED << xvars, fvars, pvars >>

\* a page of LoggedInApp calls apiFetch
PageCall ==
    /\ View = "LoggedInApp"
    /\ req["page"].st \in {"idle", "done"}
    /\ req' = [req EXCEPT !["page"] = Issue("page")]
    /\ UNCHANGED << token, storedUser, currentUser, isLoading, xvars, fvars, pvars >>

\* the page's call from the await on: handleResponse, and the page's catch
PageResume ==
    /\ req["page"].st = "answered"
    /\ LET h == HandleResponse(req["page"].resp)
       IN  /\ token' = IF h.cleared THEN "" ELSE token
           /\ storedUser' = IF h.cleared THEN FALSE ELSE storedUser
           /\ req' = [req EXCEPT !["page"].st = "done", !["page"].threw = h.threw,
                                 !["page"].removes = IF h.cleared THEN 1 ELSE 0]
    /\ UNCHANGED << currentUser, isLoading, xvars, fvars, pvars >>

NextA ==
    \/ CheckAuthStart
    \/ \E c \in ApiFetchCallers : Respond(c)
    \/ CheckAuthResume
    \/ LoginStart
    \/ LoginResume
    \/ Logout
    \/ PageCall
    \/ PageResume

SpecA == InitA /\ [][NextA]_vars

\* a fetch settles, and the continuation of checkAuth then runs
FairA ==
    /\ WF_vars(CheckAuthStart)
    /\ WF_vars(Respond("checkAuth"))
    /\ WF_vars(CheckAuthResume)

SpecALive == SpecA /\ FairA

\* ------------------------------------------------- ExerciseForm: steps
\* a user is signed in while the form is shown
SignedIn ==
    /\ token = "tokA" /\ storedUser = FALSE /\ currentUser = "Admin"
    /\ isLoading = FALSE
    /\ req = [c \in ApiFetchCallers |-> IdleReq]

\* the form is mounted: useState initial values and the effect on
\* exerciseToEdit; in edit mode fetchExerciseDetails is then in progress
InitF ==
    /\ \E e \in BOOLEAN, m \in ModuleTypes :
          props = [isEditing |-> e, moduleType |-> m,
                   editId |-> IF e THEN EditExerciseId ELSE 0]
    /\ exerciseId = IF props.isEditing THEN props.editId ELSE TempExerciseId
    /\ passageId \in (IF props.isEditing THEN {0, 3} ELSE {0})
    /\ imageId = 0 /\ recordingId = 0
    /\ initialPassageText = ""
    /\ selectedImageFile = FALSE /\ selectedRecordingFile = FALSE
    /\ currentTasks = << >> /\ pendingTasksToUpload = << >>
    /\ isSaving = FALSE /\ isFetching = props.isEditing /\ formOpen = TRUE
    /\ alertMsg = "" /\ uuids = 0
    /\ sv = IdleSv /\ fnet = IdleNet /\ log = << >>
    /\ createdExercises = 0 /\ createdTasks = << >>
    /\ SignedIn
    /\ IdleX
    /\ IdleP

\* the effect of a response on localStorage (handleResponse)
AfterResponse(r) ==
    /\ token' = IF HandleResponse(r).cleared THEN "" ELSE token
    /\ storedUser' = IF HandleResponse(r).cleared THEN FALSE ELSE storedUser
    /\ UNCHANGED << currentUser, isLoading, req >>

\* the task object GET /tasks returns for the stored task i
StoredTask(i) ==
    [transformTaskForAPI(Base("MCQ"), EditExerciseId)
       EXCEPT !.keys = @ \cup {"task_id"}, !.task_id = i]

FetchedLists == {[i \in 1..n |-> StoredTask(i)] : n \in 0..MaxFetched}

\* fetchExerciseDetails from its last await on: the passage text and the
\* tasks have been fetched, or one of the fetches failed (status, catch)
FetchDetailsDone ==
    /\ isFetching
    /\ \E status \in {200, 500}, fetched \in FetchedLists :
          /\ AfterResponse([status |-> status])
          /\ IF status = 200
             THEN /\ initialPassageText' = IF passageId # 0 THEN "P" ELSE ""
                  /\ currentTasks' = [i \in 1..Len(fetched) |-> normalizeFetchedTask(fetched[i])]
                  /\ pendingTasksToUpload' = currentTasks'
             ELSE UNCHANGED << initialPassageText, currentTasks, pendingTasksToUpload >>
    /\ isFetching' = FALSE
    /\ UNCHANGED << props, exerciseId, passageId, imageId, recordingId,
                    selectedImageFile, selectedRecordingFile, isSaving, formOpen,
                    alertMsg, uuids, sv, fnet, log, createdExercises, createdTasks,
                    xvars, pvars >>

\* The form is shown and no save is running.  The buttons of the task list
\* stay enabled during a save, but onSaveExercise works on the lists of the
\* render that submitted, so a change made during a save acts as one made
\* right after it; the steps below take it then.
Interactive == formOpen /\ ~isFetching /\ ~isSaving

\* the user picks a file in the input the form shows for the module type
SelectFile ==
    /\ Interactive
    /\ \/ /\ props.moduleType = "Reading"
          /\ ~selectedImageFile /\ selectedImageFile' = TRUE
          /\ UNCHANGED selectedRecordingFile
       \/ /\ props.moduleType \in {"Listening", "Speaking"}
          /\ ~selectedRecordingFile /\ selectedRecordingFile' = TRUE
          /\ UNCHANGED selectedImageFile
    /\ UNCHANGED << props, exerciseId, passageId, imageId, recordingId,
                    initialPassageText, currentTasks, pendingTasksToUpload, isSaving,
                    isFetching, formOpen, alertMsg, uuids, sv, fnet, log,
                    createdExercises, createdTasks, xvars, avars, pvars >>

\* crypto.randomUUID
Uuid(n) == IF n = 0 THEN "uuid-1" ELSE IF n = 1 THEN "uuid-2" ELSE "uuid-3"

\* handleSaveTask(taskData, null): a task is added
AddTask ==
    /\ Interactive
    /\ uuids < MaxNewTasks
    /\ LET newTask == [Base("MCQ") EXCEPT !.id = Uuid(uuids)]
       IN  /\ currentTasks' = Append(currentTasks, newTask)
           /\ pendingTasksToUpload' = Append(pendingTasksToUpload, newTask)
    /\ uuids' = uuids + 1
    /\ UNCHANGED << props, exerciseId, passageId, imageId, recordingId,
                    initialPassageText, selectedImageFile, selectedRecordingFile,
                    isSaving, isFetching, formOpen, alertMsg, sv, fnet, log,
                    createdExercises, createdTasks, xvars, avars, pvars >>

ReplaceById(list, id, taskData) ==
    [i \in 1..Len(list) |-> IF list[i].id = id THEN taskData ELSE list[i]]

\* handleSaveTask(taskData, originalTaskId): the task originalTaskId is
\* replaced by the task the modal returns, here the same task retitled
EditTask ==
    /\ Interactive
    /\ \E i \in 1..Len(currentTasks) :
          LET taskData == [currentTasks[i] EXCEPT !.title = "t2"]
          IN  /\ currentTasks[i].title # "t2"
              /\ currentTasks' = ReplaceById(currentTasks, currentTasks[i].id, taskData)
              /\ pendingTasksToUpload' =
                    ReplaceById(pendingTasksToUpload, currentTasks[i].id, taskData)
    /\ UNCHANGED << props, exerciseId, passageId, imageId, recordingId,
                    initialPassageText, selectedImageFile, selectedRecordingFile,
                    isSaving, isFetching, formOpen, alertMsg, uuids, sv, fnet, log,
                    createdExercises, createdTasks, xvars, avars, pvars >>

\* the requests onSaveExercise awaits, in order, for the submitted data
Uploads(trimmedPassage) ==
    LET shouldUploadPassage ==
            trimmedPassage # "" /\ (~props.isEditing
                                      \/ trimmedPassage # initialPassageText
                                      \/ passageId = 0)
    IN  (IF props.moduleType \in {"Reading", "Writing"} /\ shouldUploadPassage
         THEN << "passage" >> ELSE << >>)
        \o (IF props.moduleType = "Reading" /\ selectedImageFile
            THEN << "image" >> ELSE << >>)
        \o (IF props.moduleType \in {"Listening", "Speaking"} /\ selectedRecordingFile
            THEN << "recording" >> ELSE << >>)

\* the same with the exercise request ahead of the uploads
Plan_ExerciseFirst(trimmedPassage) ==
    << "exercise" >> \o Uploads(trimmedPassage)
       \o [k \in 1..Len(pendingTasksToUpload) |-> "task"]

Plan(trimmedPassage) ==
    Uploads(trimmedPassage) \o << "exercise" >>
       \o [k \in 1..Len(pendingTasksToUpload) |-> "task"]

\* every request of the loop sends the first task
TaskAt_First(s, i) == s.tasks[1]

\* the task the i-th request of the plan sends
TaskAt(s, i) == s.tasks[i - (Len(s.plan) - Len(s.tasks))]

\* every task is created, whether or not the backend knows it
TaskMethod_AlwaysPost(task) == "POST"

\* isUpdate = !!task.apiId; method = isUpdate ? 'PUT' : 'POST'
TaskMethod(task) == IF HasApiId(task) THEN "PUT" ELSE "POST"

\* the i-th request of the plan, as it is sent
Request(s, i) ==
    LET step == s.plan[i]
        none == [n |-> s.n, step |-> step, method |-> "POST", url |-> "", urlId |-> 0,
                 exercise_id |-> 0, local |-> "", hasTaskId |-> FALSE, task_id |-> 0,
                 st |-> "sent", rid |-> 0]
    IN  CASE step = "passage" -> [none EXCEPT !.url = "/passages"]
          [] step = "image" -> [none EXCEPT !.url = "/images"]
          [] step = "recording" -> [none EXCEPT !.url = "/recordings"]
          [] step = "exercise" ->
               IF props.isEditing
               THEN [none EXCEPT !.method = "PUT", !.url = "/exercises/{id}",
                                 !.urlId = s.finalExerciseId,
                                 !.exercise_id = s.finalExerciseId]
               ELSE [none EXCEPT !.url = "/exercises", !.exercise_id = s.finalExerciseId]
          [] OTHER ->
               LET task == TaskAt(s, i)
                   taskPayload == transformTaskForAPI(task, s.finalExerciseId)
                   isUpdate == HasApiId(task)
               IN  [none EXCEPT
                      !.method = TaskMethod(task),
                      !.url = IF isUpdate THEN "/tasks/{id}" ELSE "/tasks",
                      !.urlId = IF isUpdate THEN task.apiId ELSE 0,
                      !.exercise_id = taskPayload.exercise_id,
                      !.local = task.id,
                      !.hasTaskId = "task_id" \in taskPayload.keys,
                      !.task_id = taskPayload.task_id]

\* what the passage textarea may hold, trimmed; the form shows it for
\* Reading and Writing only
PassageInputs ==
    IF props.moduleType \in {"Reading", "Writing"} THEN {"", "P", "Q"} ELSE {""}

\* what the title input may hold
TitleInputs == {<< >>, << " " >>, << "a" >>, << " ", "a" >>}

\* the early returns of onSaveExercise without the test of the title
Refusal_NoTitleTest(title) ==
    IF props.moduleType = "Reading" /\ Len(currentTasks) = 0 THEN "tasks"
    ELSE ""

\* the early returns of onSaveExercise: the alert shown, "" when it goes on
Refusal(title) ==
    IF Trim(title) = << >> THEN "title"
    ELSE IF props.moduleType = "Reading" /\ Len(currentTasks) = 0 THEN "tasks"
    ELSE ""

\* onSaveExercise up to its first await
SaveStart ==
    /\ Interactive
    /\ sv.n < MaxSaves
    /\ \E title \in TitleInputs, trimmedPassage \in PassageInputs :
          IF Refusal(title) # ""
          THEN /\ alertMsg' = Refusal(title)
               /\ UNCHANGED << isSaving, sv, fnet, log >>
          ELSE LET s == [pc |-> "running", n |-> sv.n + 1,
                         plan |-> Plan(trimmedPassage), i |-> 1,
                         exerciseTitle |-> Trim(title),
                         trimmedPassage |-> trimmedPassage,
                         finalPassageId |-> passageId, finalImageId |-> imageId,
                         finalRecordingId |-> recordingId,
                         finalExerciseId |-> IF props.isEditing THEN props.editId
                                             ELSE exerciseId,
                         tasks |-> pendingTasksToUpload]
               IN  /\ isSaving' = TRUE
                   /\ sv' = s
                   /\ fnet' = [IdleNet EXCEPT !.st = "sent"]
                   /\ log' = << Request(s, 1) >>
                   /\ UNCHANGED alertMsg
    /\ UNCHANGED << props, exerciseId, passageId, imageId, recordingId,
                    initialPassageText, selectedImageFile, selectedRecordingFile,
                    currentTasks, pendingTasksToUpload, isFetching, formOpen, uuids,
                    createdExercises, createdTasks, xvars, avars, pvars >>

\* the backend answers the request onSaveExercise awaits
FormResps == {[status |-> 200, id |-> i] : i \in {0, 7}}
             \cup {[status |-> 500, id |-> 0]}

RespondForm ==
    /\ fnet.st = "sent"
    /\ \E r \in FormResps : fnet' = [st |-> "answered", resp |-> r]
    /\ UNCHANGED << props, exerciseId, passageId, imageId, recordingId,
                    initialPassageText, selectedImageFile, selectedRecordingFile,
                    currentTasks, pendingTasksToUpload, isSaving, isFetching, formOpen,
                    alertMsg, uuids, sv, log, createdExercises, createdTasks,
                    xvars, avars, pvars >>

\* StepFails without the tests of the returned ids
StepFails_IgnoreMissingId(step, r) == HandleResponse(r).threw

\* whether the awaited step ends the sequence with an error: apiFetch
\* throws, an upload returns no id, or POST /exercises returns no id
StepFails(step, r) ==
    \/ HandleResponse(r).threw
    \/ step \in {"passage", "image", "recording"} /\ r.id = 0
    \/ step = "exercise" /\ ~props.isEditing /\ r.id = 0

\* the temporary id is kept after the exercise was created
OfficialExerciseId_KeepTemporary(cur, step, r) == cur

\* finalExerciseId after a step: in create mode the id POST /exercises
\* returned replaces the temporary one
OfficialExerciseId(cur, step, r) ==
    IF step = "exercise" /\ ~props.isEditing THEN r.id ELSE cur

\* onSaveExercise from one await to the next, or to its end
SaveResume ==
    /\ fnet.st = "answered"
    /\ LET r == fnet.resp
           step == sv.plan[sv.i]
           s == [sv EXCEPT
                   !.finalPassageId = IF step = "passage" THEN r.id ELSE @,
                   !.finalImageId = IF step = "image" THEN r.id ELSE @,
                   !.finalRecordingId = IF step = "recording" THEN r.id ELSE @,
                   !.finalExerciseId = OfficialExerciseId(@, step, r)]
           answered == [log EXCEPT ![Len(log)].st = IF HandleResponse(r).threw
                                                    THEN "failed" ELSE "ok",
                                   ![Len(log)].rid = r.id]
           sent == log[Len(log)]
           created == ~HandleResponse(r).threw /\ sent.method = "POST"
       IN  /\ AfterResponse(r)
           /\ createdExercises' = IF created /\ sent.url = "/exercises"
                                  THEN createdExercises + 1 ELSE createdExercises
           /\ createdTasks' = IF created /\ sent.url = "/tasks"
                              THEN Append(createdTasks, sent.local) ELSE createdTasks
           /\ initialPassageText' =
                 IF step = "passage" /\ ~StepFails(step, r) THEN sv.trimmedPassage
                 ELSE initialPassageText
           /\ IF StepFails(step, r)
              THEN /\ alertMsg' = "failed"
                   /\ isSaving' = FALSE
                   /\ sv' = [sv EXCEPT !.pc = "failed"]
                   /\ fnet' = IdleNet
                   /\ log' = answered
                   /\ UNCHANGED << pendingTasksToUpload, formOpen >>
              ELSE IF sv.i < Len(sv.plan)
              THEN /\ sv' = [s EXCEPT !.i = sv.i + 1]
                   /\ fnet' = [IdleNet EXCEPT !.st = "sent"]
                   /\ log' = Append(answered, Request(s, sv.i + 1))
                   /\ UNCHANGED << alertMsg, isSaving, pendingTasksToUpload, formOpen >>
              ELSE /\ pendingTasksToUpload' = IF Len(sv.tasks) > 0 THEN << >>
                                              ELSE pendingTasksToUpload
                   /\ alertMsg' = "saved"
                   /\ formOpen' = FALSE
                   /\ isSaving' = FALSE
                   /\ sv' = [s EXCEPT !.pc = "succeeded"]
                   /\ fnet' = IdleNet
                   /\ log' = answered
    /\ UNCHANGED << props, exerciseId, passageId, imageId, recordingId,
                    selectedImageFile, selectedRecordingFile, currentTasks,
                    isFetching, uuids, xvars, pvars >>

NextF ==
    \/ FetchDetailsDone
    \/ SelectFile
    \/ AddTask
    \/ EditTask
    \/ SaveStart
    \/ RespondForm
    \/ SaveResume

SpecF == InitF /\ [][NextF]_vars

\* ------------------------------------------ the transformer, step by step
InitX ==
    /\ xTask \in TaskInputs
    /\ xExId \in ExerciseIds
    /\ xPayload = EmptyWire
    /\ xFetched = EmptyWire
    /\ xNorm = NoTask
    /\ xpc = "task"
    /\ IdleA
    /\ IdleF
    /\ IdleP

\* onSaveExercise builds the payload of one task
XTransform ==
    /\ xpc = "task"
    /\ xPayload' = transformTaskForAPI(xTask, xExId)
    /\ xpc' = "sent"
    /\ UNCHANGED << xTask, xExId, xFetched, xNorm , avars, fvars, pvars >>

\* the server stores the payload and returns it; a created task gets an id
XEcho ==
    /\ xpc = "sent"
    /\ \E sid \in 1..MaxServerId :
          xFetched' = IF "task_id" \in xPayload.keys
                      THEN xPayload
                      ELSE [xPayload EXCEPT !.keys = @ \cup {"task_id"}, !.task_id = sid]
    /\ xpc' = "stored"
    /\ UNCHANGED << xTask, xExId, xPayload, xNorm , avars, fvars, pvars >>

\* fetchExerciseDetails maps the returned task back
XNormalize ==
    /\ xpc = "stored"
    /\ xNorm' = normalizeFetchedTask(xFetched)
    /\ xpc' = "done"
    /\ UNCHANGED << xTask, xExId, xPayload, xFetched , avars, fvars, pvars >>

NextX == XTransform \/ XEcho \/ XNormalize

SpecX == InitX /\ [][NextX]_vars

\* ------------------------------------------------- transformer: claims
\* The semantic content of a local task, as the form reads it: the common
\* fields and the content of the task's own variant.  Undefined and falsy
\* values are not distinguished, a group entry counts by its value, a
\* question's allow-multiple flag is the one in force for it, a blank's
\* answers are its list of trimmed, non-empty answers.
\* ---------------------------------------------------- LoggedInApp: steps
baseNavItems == {"Dashboard"}
adminOnlyNavItems == {"Subscriptions"}
staffNavItems == {"Users Management"}
exerciseModules == {"Reading", "Writing", "Listening", "Speaking"}
promoNavItems == {"Promo Codes", "Promo Modules"}

\* the items of the Sidebar with the promo items shown to every staff role
availableNavItems_PromoForStaff(currentUserRole) ==
    baseNavItems
    \cup (IF currentUserRole \in {"SuperAdmin", "Admin", "Editor"} THEN staffNavItems ELSE {})
    \cup (IF currentUserRole \in {"SuperAdmin", "Admin"} THEN adminOnlyNavItems ELSE {})
    \cup (IF currentUserRole \in {"SuperAdmin", "Admin", "Editor"} THEN promoNavItems ELSE {})

\* the items of the Sidebar
availableNavItems(currentUserRole) ==
    baseNavItems
    \cup (IF currentUserRole \in {"SuperAdmin", "Admin", "Editor"} THEN staffNavItems ELSE {})
    \cup (IF currentUserRole \in {"SuperAdmin", "Admin"} THEN adminOnlyNavItems ELSE {})
    \cup (IF currentUserRole \in {"SuperAdmin", "Admin"} THEN promoNavItems ELSE {})

\* the buttons of the Sidebar that call setActivePage
NavButtons(currentUserRole, expanded) ==
    availableNavItems(currentUserRole)
    \cup (IF currentUserRole \in {"SuperAdmin", "Admin", "Editor"} /\ expanded
          THEN exerciseModules ELSE {})

\* renderContent: the page component shown for activePage
renderContent(activePage) ==
    IF activePage \in {"Dashboard", "Users Management", "Exercises Management",
                       "Promo Codes", "Promo Modules", "Inquiries",
                       "Contact Form Submissions"}
    THEN activePage ELSE "Dashboard"

\* what App renders is what is on the screen
Rendered == nav.mounted <=> (View = "LoggedInApp")

navRest == << xvars, avars, fvars, page, srv, ec, af, iq, pm, mm, um, ex, rm, df >>

\* App renders after a change of useAuth's state: LoggedInApp is mounted
\* with its initial state, or unmounted
NavRender ==
    /\ ~Rendered
    /\ nav' = IF View = "LoggedInApp" THEN MountedNav ELSE NoNav
    /\ UNCHANGED navRest

\* a button of the Sidebar: setActivePage(item.page)
NavClick ==
    /\ Rendered /\ nav.mounted
    /\ \E p \in NavButtons(currentUser, nav.isExercisesExpanded) :
          nav' = [nav EXCEPT !.activePage = p]
    /\ UNCHANGED navRest

\* the Exercises Management button of the Sidebar
NavToggleExercises ==
    /\ Rendered /\ nav.mounted
    /\ currentUser \in {"SuperAdmin", "Admin", "Editor"}
    /\ nav' = [nav EXCEPT !.isExercisesExpanded = ~@]
    /\ UNCHANGED navRest

\* the steps of useAuth, each taken once App has rendered
NavCheckAuthStart == Rendered /\ CheckAuthStart
NavRespond == Rendered /\ \E c \in ApiFetchCallers : Respond(c)
NavCheckAuthResume == Rendered /\ CheckAuthResume
NavLoginStart == Rendered /\ LoginStart
NavLoginResume == Rendered /\ LoginResume
NavLogout == Rendered /\ Logout

InitN == InitA

NextN ==
    \/ NavRender
    \/ NavClick
    \/ NavToggleExercises
    \/ NavCheckAuthStart
    \/ NavRespond
    \/ NavCheckAuthResume
    \/ NavLoginStart
    \/ NavLoginResume
    \/ NavLogout

SpecN == InitN /\ [][NextN]_vars

\* ------------------------------------------------------- apiFetch: steps
\* { ...a, ...b }
Spread(a, b) ==
    [k \in DOMAIN a \cup DOMAIN b |-> IF k \in DOMAIN b THEN b[k] ELSE a[k]]

\* the headers of apiFetch with the JSON content type for every body
ApiFetchHeaders_AlwaysJson(tok, options) ==
    Spread(Spread([k \in {"Content-Type"} |-> "application/json"],
                  IF tok # "" THEN [k \in {"Authorization"} |-> "Bearer " \o tok]
                  ELSE NoHeaders),
           options.headers)

\* the headers apiFetch builds
ApiFetchHeaders(tok, options) ==
    LET isFormData == options.body = "formdata"
    IN  Spread(Spread(IF isFormData THEN NoHeaders
                      ELSE [k \in {"Content-Type"} |-> "application/json"],
                      IF tok # "" THEN [k \in {"Authorization"} |-> "Bearer " \o tok]
                      ELSE NoHeaders),
               options.headers)

\* Array.prototype.join(sep) on strings
RECURSIVE Join(_, _)
Join(items, sep) ==
    IF items = << >> THEN ""
    ELSE IF Len(items) = 1 THEN items[1]
    ELSE items[1] \o sep \o Join(Tail(items), sep)

Quoted(items) == [i \in 1..Len(items) |-> "\"" \o items[i] \o "\""]

\* JSON.stringify of an array of strings, of an object
Stringify(v) == IF v.kind = "array" THEN "[" \o Join(Quoted(v.items), ",") \o "]" ELSE v.str

\* a value in an if: undefined and "" are falsy, arrays and objects truthy
Truthy(v) == v.kind # "absent" /\ ~(v.kind = "string" /\ v.str = "")

\* the text of data.message
MessageText(v) ==
    IF v.kind = "array" THEN Join(v.items, "\n")
    ELSE IF v.kind = "object" THEN Stringify(v)
    ELSE v.str

\* the text of data.error and of data.detail
OtherText(v) == IF v.kind \in {"array", "object"} THEN Stringify(v) ELSE v.str

\* the errorMessage of handleResponse with error tried before message
ErrorMessage_ErrorFirst(response) ==
    LET data == response.data
    IN  IF Truthy(data.error) THEN OtherText(data.error)
        ELSE IF Truthy(data.message) THEN MessageText(data.message)
        ELSE IF Truthy(data.detail) THEN OtherText(data.detail)
        ELSE IF response.statusText # "" THEN response.statusText
        ELSE "HTTP " \o ToString(response.status)

\* the errorMessage of handleResponse
ErrorMessage(response) ==
    LET data == response.data
    IN  IF Truthy(data.message) THEN MessageText(data.message)
        ELSE IF Truthy(data.error) THEN OtherText(data.error)
        ELSE IF Truthy(data.detail) THEN OtherText(data.detail)
        ELSE IF response.statusText # "" THEN response.statusText
        ELSE "HTTP " \o ToString(response.status)

\* handleResponse: the error it throws, or the data it returns
handleResponse(response) ==
    IF response.status \notin 200..299
    THEN [threw |-> TRUE, message |-> ErrorMessage(response),
          status |-> response.status, data |-> response.data]
    ELSE [threw |-> FALSE, message |-> "", status |-> 0, data |-> response.data]

\* the arguments of apiFetch as the pages pass them
HTokens == {"", "tokA"}
HBodies == {"none", "json", "formdata"}
HCallerHeaders == {NoHeaders, [k \in {"Accept"} |-> "application/json"]}

\* the values a property of an error body takes
FieldVals(tag) ==
    {Absent, StrVal(""), StrVal(tag), ArrVal(<< tag, "x" >>), ObjVal("{\"k\":\"" \o tag \o "\"}")}

HBodiesOf ==
    {NullBody, TextBody}
    \cup {ObjBody(m, e, d) : m \in FieldVals("m"), e \in FieldVals("e"), d \in FieldVals("d")}

HResponses ==
    {[status |-> st, statusText |-> tx, data |-> b] :
        st \in {200, 204, 400, 401, 500}, tx \in {"", "Status Text"}, b \in HBodiesOf}

hRest == << xvars, avars, fvars, page, srv, ec, nav, iq, pm, mm, um, ex, rm, df >>

InitH ==
    /\ \E tok \in HTokens, b \in HBodies, hd \in HCallerHeaders :
          af = [IdleH EXCEPT !.pc = "called", !.token = tok,
                            !.options = [body |-> b, headers |-> hd]]
    /\ page = "none" /\ srv = NoSrv /\ ec = IdleEc /\ nav = NoNav /\ iq = IdleIq
    /\ pm = IdlePm /\ mm = IdleMm /\ um = IdleUm
    /\ ex = IdleEx /\ rm = IdleRm /\ df = IdleDf
    /\ IdleX /\ IdleA /\ IdleF

\* apiFetch up to its await of fetch
HFetch ==
    /\ af.pc = "called"
    /\ af' = [af EXCEPT !.pc = "sent",
                      !.config = [body |-> af.options.body,
                                  headers |-> ApiFetchHeaders(af.token, af.options),
                                  credentials |-> "omit"]]
    /\ UNCHANGED hRest

\* the backend answers
HRespond ==
    /\ af.pc = "sent"
    /\ \E r \in HResponses : af' = [af EXCEPT !.pc = "answered", !.response = r]
    /\ UNCHANGED hRest

\* apiFetch from the await on: handleResponse
HHandle ==
    /\ af.pc = "answered"
    /\ af' = [af EXCEPT !.pc = "done",
                      !.result = handleResponse(af.response),
                      !.removed = HandleResponse(af.response).cleared,
                      !.token = IF HandleResponse(af.response).cleared THEN "" ELSE @]
    /\ UNCHANGED hRest

NextH == HFetch \/ HRespond \/ HHandle

SpecH == InitH /\ [][NextH]_vars

\* ------------------------------------------------------ Inquiries: steps
iqRest == << xvars, avars, fvars, page, srv, ec, af, nav, pm, mm, um, ex, rm, df >>

\* the tickets the backend holds when the page is opened
ServerTickets == {Submitted, Ticket("resolved", << "a" >>)}

\* what the admin types into the reply box
ReplyInputs == {<< >>, << " " >>, << "a" >>, << " ", "a" >>}

\* Inquiries is mounted: useState initial values, and the effect has
\* called loadInquiries up to its await
InitQ ==
    /\ \E tickets \in [InquiryIds -> ServerTickets] :
          iq = [IdleIq EXCEPT !.server = tickets, !.load = "sent", !.loads = 1]
    /\ page = "none" /\ srv = NoSrv /\ ec = IdleEc /\ af = IdleH /\ nav = NoNav
    /\ pm = IdlePm /\ mm = IdleMm /\ um = IdleUm
    /\ ex = IdleEx /\ rm = IdleRm /\ df = IdleDf
    /\ SignedIn /\ IdleX /\ IdleF

\* the list view, the detail view
ListView == ~iq.loading /\ iq.error = "" /\ iq.selectedInquiry.id = 0
DetailView == ~iq.loading /\ iq.error = "" /\ iq.selectedInquiry.id # 0

\* the reply form is rendered
ReplyForm ==
    /\ DetailView
    /\ iq.selectedInquiry.status = "submitted"
    /\ iq.selectedInquiry.reply = << >>

\* GET /support-form/ is answered: the tickets, no array, or a failure
QLoadRespond ==
    /\ iq.load = "sent"
    /\ \E a \in {"tickets", "noarray", "fail"} :
          iq' = [iq EXCEPT !.load = a,
                           !.loaded = IF a = "tickets" THEN iq.server ELSE [i \in {} |-> Submitted]]
    /\ UNCHANGED iqRest

\* loadInquiries from the await on
QLoadResume ==
    /\ iq.load \in {"tickets", "noarray", "fail"}
    /\ iq' = [iq EXCEPT !.load = "idle",
                        !.inquiries = IF iq.load = "fail" THEN @ ELSE iq.loaded,
                        !.error = IF iq.load = "fail" THEN "Failed to load inquiries." ELSE @,
                        !.loading = FALSE]
    /\ UNCHANGED iqRest

\* the Try Again button of the error view: loadInquiries up to its await
QRetry ==
    /\ iq.error # "" /\ ~iq.loading
    /\ iq.load = "idle"
    /\ iq.loads < MaxLoads
    /\ iq' = [iq EXCEPT !.loading = TRUE, !.error = "", !.load = "sent", !.loads = @ + 1]
    /\ UNCHANGED iqRest

\* a row of the list: handleInquiryClick -> fetchInquiryDetails up to its
\* await
QClick ==
    /\ ListView
    /\ \E id \in DOMAIN iq.inquiries, k \in 1..MaxDetails :
          /\ iq.details[k].pc = "idle"
          /\ \A j \in 1..(k - 1) : iq.details[j].pc # "idle"
          /\ iq' = [iq EXCEPT !.details[k] = [NoDetails EXCEPT !.pc = "sent", !.id = id]]
    /\ UNCHANGED iqRest

\* GET /support-form/:id is answered with the ticket as the backend holds
\* it then, or fails
QDetailsRespond ==
    /\ \E k \in 1..MaxDetails, ok \in BOOLEAN :
          /\ iq.details[k].pc = "sent"
          /\ iq' = [iq EXCEPT !.details[k].pc = "answered",
                              !.details[k].ok = ok,
                              !.details[k].form = iq.server[iq.details[k].id]]
    /\ UNCHANGED iqRest

\* fetchInquiryDetails from the await on
QDetailsResume ==
    /\ \E k \in 1..MaxDetails :
          /\ iq.details[k].pc = "answered"
          /\ LET c == iq.details[k]
             IN  iq' = [iq EXCEPT !.details[k].pc = "done",
                                  !.selectedInquiry =
                                      IF c.ok THEN [id |-> c.id, status |-> c.form.status,
                                                    reply |-> c.form.reply]
                                      ELSE @]
    /\ UNCHANGED iqRest

\* Back to Inbox
QBack ==
    /\ DetailView
    /\ iq' = [iq EXCEPT !.selectedInquiry = NoSelection]
    /\ UNCHANGED iqRest

\* submitReply up to its await
submitReply(q) ==
    IF q.selectedInquiry.id = 0 \/ Trim(q.replyMessage) = << >>
    THEN [q EXCEPT !.replyError = "Please enter a reply message"]
    ELSE [q EXCEPT !.submitting = TRUE, !.replyError = "",
                   !.reply = [NoReply EXCEPT !.pc = "sent", !.id = q.selectedInquiry.id,
                                             !.msg = Trim(q.replyMessage)],
                   !.requests = @ + 1]

\* the admin types a message; the Send Reply button, when it is enabled,
\* calls submitReply
QSendReply ==
    /\ ReplyForm
    /\ iq.requests < MaxReplies
    /\ \E m \in ReplyInputs :
          IF iq.submitting \/ Trim(m) = << >>
          THEN iq' = [iq EXCEPT !.replyMessage = m]
          ELSE iq' = submitReply([iq EXCEPT !.replyMessage = m])
    /\ UNCHANGED iqRest

\* POST /support-form/reply is answered: the backend stores the reply and
\* returns the ticket, returns no ticket, or the call fails
QReplyRespond ==
    /\ iq.reply.pc = "sent"
    /\ \E a \in {"form", "noform", "fail"} :
          LET t == Ticket("resolved", iq.reply.msg)
          IN  iq' = [iq EXCEPT !.reply.pc = "answered", !.reply.answer = a,
                               !.reply.form = IF a = "fail" THEN @ ELSE t,
                               !.server[iq.reply.id] = IF a = "fail" THEN @ ELSE t]
    /\ UNCHANGED iqRest

\* submitReply from the await on; selectedInquiry is the one of the render
\* in which the button was pressed
QReplyResume ==
    /\ iq.reply.pc = "answered"
    /\ LET c == iq.reply
       IN  iq' = CASE c.answer = "form" ->
                        [iq EXCEPT !.reply.pc = "idle", !.submitting = FALSE,
                                   !.selectedInquiry = [id |-> c.id, status |-> c.form.status,
                                                        reply |-> c.form.reply],
                                   !.inquiries = [i \in DOMAIN @ |->
                                                    IF i = c.id THEN c.form ELSE @[i]],
                                   !.replyMessage = << >>,
                                   !.replied = @ \cup {c.id}]
                   [] c.answer = "noform" ->
                        [iq EXCEPT !.reply.pc = "idle", !.submitting = FALSE]
                   [] OTHER ->
                        [iq EXCEPT !.reply.pc = "idle", !.submitting = FALSE,
                                   !.replyError = "Failed to send reply"]
    /\ UNCHANGED iqRest

NextQ ==
    \/ QLoadRespond
    \/ QLoadResume
    \/ QRetry
    \/ QClick
    \/ QDetailsRespond
    \/ QDetailsResume
    \/ QBack
    \/ QSendReply
    \/ QReplyRespond
    \/ QReplyResume

SpecQ == InitQ /\ [][NextQ]_vars

\* ---------------------------------------------------- the pages: steps
MaxJsonLen == 2
MaxConfigs == 2
MaxSubmits == 2

\* the characters a provider_config is typed from
JsonChars == {"{", "}", "1", " ", "\""}

RECURSIVE StrOver(_, _)
StrOver(C, n) ==
    IF n = 0 THEN {<< >>}
    ELSE LET S == StrOver(C, n - 1)
         IN  S \cup {Append(str, c) : str \in {r \in S : Len(r) = n - 1}, c \in C}

JsonInputs == StrOver(JsonChars, MaxJsonLen)

Inner(str) == SubSeq(str, 2, Len(str) - 1)

\* JSON.parse(str) returns rather than throws, for a text over JsonChars:
\* optional white space around a number, an empty object or a string
JsonParses(str) ==
    LET v == Trim(str)
    IN  /\ v # << >>
        /\ \/ \A k \in 1..Len(v) : v[k] = "1"
           \/ /\ Len(v) >= 2 /\ Head(v) = "{" /\ v[Len(v)] = "}"
              /\ \A k \in 1..Len(Inner(v)) : Inner(v)[k] = " "
           \/ /\ Len(v) >= 2 /\ Head(v) = "\"" /\ v[Len(v)] = "\""
              /\ \A k \in 1..Len(Inner(v)) : Inner(v)[k] # "\""

\* the provider_config of a stored config
StoredProviderConfig == << "{", "}" >>

ConfigIds == 1..MaxConfigs

\* everything but EmailConfigs and the backend
ecRest == << xvars, avars, fvars, page, af, nav, iq, pm, mm, um, ex, rm, df >>

\* the page EmailConfigs is mounted: useEffect has called loadConfigs
MountedEc ==
    /\ page = "EmailConfigs"
    /\ srv \in {[NoSrv EXCEPT !.configs = c] : c \in {{}, {1}}}
    /\ ec = [IdleEc EXCEPT !.load = ListCall]

\* the backend answers the request that call c awaits: a create stores a
\* config under a fresh id, a delete removes one, a list fetch returns
\* the stored configs; every request may fail
Answer(c, stored, ids) ==
    LET fresh == CHOOSE i \in ids : i \notin stored
    IN  {<< [c EXCEPT !.pc = IF c.pc = "mut" THEN "mutAns" ELSE "listAns",
                      !.ok = FALSE], stored >>}
        \cup
        (CASE c.pc = "list" ->
                {<< [c EXCEPT !.pc = "listAns", !.ok = TRUE, !.list = stored], stored >>}
           [] c.pc = "mut" /\ c.kind = "create" /\ stored # ids ->
                {<< [c EXCEPT !.pc = "mutAns", !.ok = TRUE], stored \cup {fresh} >>}
           [] c.pc = "mut" /\ c.kind = "update" /\ c.id \in stored ->
                {<< [c EXCEPT !.pc = "mutAns", !.ok = TRUE], stored >>}
           [] c.pc = "mut" /\ c.kind = "delete" ->
                {<< [c EXCEPT !.pc = "mutAns", !.ok = TRUE], stored \ {c.id} >>}
           [] OTHER -> {})

EcRespond ==
    /\ page = "EmailConfigs"
    /\ \E th \in {"load", "op"} :
          /\ ec[th].pc \in {"mut", "list"}
          /\ \E a \in Answer(ec[th], srv.configs, ConfigIds) :
                /\ ec' = [ec EXCEPT ![th] = a[1]]
                /\ srv' = [srv EXCEPT !.configs = a[2]]
    /\ UNCHANGED ecRest

\* loadConfigs from its await on: try / catch / finally
LoadConfigsEnd(e, c) ==
    [e EXCEPT !.configs = IF c.ok THEN c.list ELSE @,
              !.error = IF c.ok THEN @ ELSE "Failed to load email configurations",
              !.isLoading = FALSE]

\* loadConfigs up to its await
LoadConfigsStart(e) == [e EXCEPT !.isLoading = TRUE, !.error = ""]

\* the loadConfigs of the mount effect, from its await on
EcLoadResume ==
    /\ page = "EmailConfigs"
    /\ ec.load.pc = "listAns"
    /\ ec' = [LoadConfigsEnd(ec, ec.load) EXCEPT !.load = NoCall]
    /\ UNCHANGED << srv, ecRest >>

\* Add Configuration, or the edit button of a config: the modal opens and
\* the effect of EmailConfigForm fills formData
EcOpenModal ==
    /\ page = "EmailConfigs"
    /\ ~ec.isModalOpen /\ ec.op.pc = "idle"
    /\ \E c \in {0} \cup (IF ec.isLoading THEN {} ELSE ec.configs) :
          ec' = [ec EXCEPT !.isModalOpen = TRUE,
                           !.editingConfig = c,
                           !.provider_config = IF c = 0 THEN << >>
                                               ELSE StoredProviderConfig]
    /\ UNCHANGED << srv, ecRest >>

\* closeModal (Cancel is disabled while submitting); the effect of the
\* form then resets formData
EcCloseModal ==
    /\ page = "EmailConfigs"
    /\ ec.isModalOpen /\ ~ec.isSubmitting
    /\ ec' = [ec EXCEPT !.isModalOpen = FALSE, !.editingConfig = 0,
                        !.provider_config = << >>]
    /\ UNCHANGED << srv, ecRest >>

\* handleSubmit without the JSON.parse test
EcHandleSubmit_NoValidation(e) ==
    [e EXCEPT
       !.submitted = @ + 1,
       !.isSubmitting = TRUE,
       !.error = "", !.success = "",
       !.requests = @ + 1,
       !.op = [NoCall EXCEPT
                 !.pc = "mut",
                 !.kind = IF e.editingConfig # 0 THEN "update" ELSE "create",
                 !.id = e.editingConfig,
                 !.payload = e.provider_config]]

\* handleSubmit of EmailConfigForm up to its first await: the JSON test,
\* then onSubmit = handleSaveConfig up to the await of the request
EcHandleSubmit(e) ==
    IF ~JsonParses(e.provider_config)
    THEN [e EXCEPT !.submitted = @ + 1,
                   !.alert = "Invalid JSON format in provider_config",
                   !.isSubmitting = FALSE]
    ELSE [e EXCEPT
            !.submitted = @ + 1,
            !.isSubmitting = TRUE,
            !.error = "", !.success = "",
            !.requests = @ + 1,
            !.op = [NoCall EXCEPT
                      !.pc = "mut",
                      !.kind = IF e.editingConfig # 0 THEN "update" ELSE "create",
                      !.id = e.editingConfig,
                      !.payload = e.provider_config]]

\* the user submits the form with the text str in the provider_config
\* textarea
EcSubmit ==
    /\ page = "EmailConfigs"
    /\ ec.isModalOpen /\ ~ec.isSubmitting
    /\ ec.submitted < MaxSubmits
    /\ \E str \in JsonInputs :
          ec' = EcHandleSubmit([ec EXCEPT !.provider_config = str])
    /\ UNCHANGED << srv, ecRest >>

\* handleSaveConfig from the await of createConfig / updateConfig on, and
\* the rest of handleSubmit when it returns false
EcSaveResume ==
    /\ page = "EmailConfigs"
    /\ ec.op.pc = "mutAns" /\ ec.op.kind \in {"create", "update"}
    /\ IF ec.op.ok
       THEN ec' = [LoadConfigsStart(ec) EXCEPT
                     !.success = "Email configuration saved successfully!",
                     !.op.pc = "list"]
       ELSE ec' = [ec EXCEPT !.error = "Failed to save email configuration",
                             !.isSubmitting = FALSE,
                             !.outcome = "failed",
                             !.op = NoCall]
    /\ UNCHANGED << srv, ecRest >>

\* handleSaveConfig from the await of loadConfigs on: the modal is closed
\* and true returned; handleSubmit calls onClose and ends
EcSaveEnd ==
    /\ page = "EmailConfigs"
    /\ ec.op.pc = "listAns" /\ ec.op.kind \in {"create", "update"}
    /\ ec' = [LoadConfigsEnd(ec, ec.op) EXCEPT
                !.isModalOpen = FALSE, !.editingConfig = 0,
                !.provider_config = << >>,
                !.isSubmitting = FALSE,
                !.outcome = "saved",
                !.op = NoCall]
    /\ UNCHANGED << srv, ecRest >>

\* handleDeleteConfig, confirmed, up to the await of deleteConfig
EcDelete ==
    /\ page = "EmailConfigs"
    /\ ~ec.isModalOpen /\ ~ec.isLoading /\ ec.op.pc = "idle"
    /\ \E c \in ec.configs :
          ec' = [ec EXCEPT !.error = "", !.success = "",
                           !.op = [NoCall EXCEPT !.pc = "mut", !.kind = "delete", !.id = c]]
    /\ UNCHANGED << srv, ecRest >>

\* handleDeleteConfig from the await of deleteConfig on
EcDeleteResume ==
    /\ page = "EmailConfigs"
    /\ ec.op.pc = "mutAns" /\ ec.op.kind = "delete"
    /\ IF ec.op.ok
       THEN ec' = [LoadConfigsStart(ec) EXCEPT
                     !.success = "Email configuration deleted successfully!",
                     !.op.pc = "list"]
       ELSE ec' = [ec EXCEPT !.error = "Failed to delete email configuration",
                             !.op = NoCall]
    /\ UNCHANGED << srv, ecRest >>

\* handleDeleteConfig from the await of loadConfigs on
EcDeleteEnd ==
    /\ page = "EmailConfigs"
    /\ ec.op.pc = "listAns" /\ ec.op.kind = "delete"
    /\ ec' = [LoadConfigsEnd(ec, ec.op) EXCEPT !.op = NoCall]
    /\ UNCHANGED << srv, ecRest >>

\* the x of the error banner of the page, which the open modal covers
EcDismissError ==
    /\ page = "EmailConfigs"
    /\ ec.error # "" /\ ~ec.isModalOpen
    /\ ec' = [ec EXCEPT !.error = ""]
    /\ UNCHANGED << srv, ecRest >>

NextEc ==
    \/ EcRespond
    \/ EcLoadResume
    \/ EcOpenModal
    \/ EcCloseModal
    \/ EcSubmit
    \/ EcSaveResume
    \/ EcSaveEnd
    \/ EcDelete
    \/ EcDeleteResume
    \/ EcDeleteEnd
    \/ EcDismissError

\* ----------------------------------------------------- PromoModules
PromoIds == 1..MaxPromos

pmRest == << xvars, avars, fvars, page, ec, af, nav, iq, mm, um, ex, rm, df >>

\* PromoModules is mounted: useEffect has called fetchPromos
MountedPm ==
    /\ page = "PromoModules"
    /\ srv \in {[NoSrv EXCEPT !.promos = c] : c \in {{1}, PromoIds}}
    /\ pm = [IdlePm EXCEPT !.load = ListCall]

\* the backend answers GET /promocode/ or a DELETE /promocode/:id
PmRespond ==
    /\ page = "PromoModules"
    /\ \/ /\ pm.load.pc = "list"
          /\ \E a \in Answer(pm.load, srv.promos, PromoIds) :
                /\ pm' = [pm EXCEPT !.load = a[1]]
                /\ srv' = [srv EXCEPT !.promos = a[2]]
       \/ \E k \in 1..MaxDeletes :
             /\ pm.dels[k].pc = "mut"
             /\ \E a \in Answer(pm.dels[k], srv.promos, PromoIds) :
                   /\ pm' = [pm EXCEPT !.dels[k] = a[1]]
                   /\ srv' = [srv EXCEPT !.promos = a[2]]
    /\ UNCHANGED pmRest

\* fetchPromos from its await on
PmLoadResume ==
    /\ page = "PromoModules"
    /\ pm.load.pc = "listAns"
    /\ pm' = [pm EXCEPT !.promos = IF pm.load.ok THEN pm.load.list ELSE @,
                        !.isLoading = FALSE,
                        !.load = NoCall]
    /\ UNCHANGED << srv, pmRest >>

\* the delete button of a promo, confirmed: deletePromo up to its await
PmDelete ==
    /\ page = "PromoModules"
    /\ ~pm.isLoading
    /\ \E id \in pm.promos, k \in 1..MaxDeletes :
          /\ pm.dels[k].pc = "idle"
          /\ \A j \in 1..(k - 1) : pm.dels[j].pc # "idle"
          /\ pm' = [pm EXCEPT !.dels[k] = [NoCall EXCEPT !.pc = "mut", !.kind = "delete",
                                                        !.id = id],
                              !.closure[k] = pm.promos]
    /\ UNCHANGED << srv, pmRest >>

\* deletePromo from its await on: promos is the one of the render in
\* which the button was pressed
PmDeleteResume ==
    /\ page = "PromoModules"
    /\ \E k \in 1..MaxDeletes :
          /\ pm.dels[k].pc = "mutAns"
          /\ pm' = [pm EXCEPT !.promos = IF pm.dels[k].ok
                                         THEN pm.closure[k] \ {pm.dels[k].id} ELSE @,
                              !.alert = IF pm.dels[k].ok THEN @ ELSE "Failed to delete promo.",
                              !.dels[k] = NoCall,
                              !.closure[k] = {}]
    /\ UNCHANGED << srv, pmRest >>

NextPm ==
    \/ PmRespond
    \/ PmLoadResume
    \/ PmDelete
    \/ PmDeleteResume

\* ------------------------------------------------- ModulesManagement
ModuleIds == 1..MaxModules

\* the module names typed into the form
ModuleNames == {<< >>, << " " >>, << "a" >>}

mmRest == << xvars, avars, fvars, page, ec, af, nav, iq, pm, um, ex, rm, df >>

\* ModulesManagement is mounted: useEffect has called fetchModules
MountedMm ==
    /\ page = "ModulesManagement"
    /\ srv \in {[NoSrv EXCEPT !.modules = c] : c \in {{}, {1}}}
    /\ mm = [IdleMm EXCEPT !.load = ListCall]

\* fetchModules up to its await, and from its await on
FetchModulesStart(m) == [m EXCEPT !.modulesLoading = TRUE, !.modulesError = ""]

FetchModulesEnd(m, c) ==
    [m EXCEPT !.modules = IF c.ok THEN c.list ELSE {},
              !.modulesError = IF c.ok THEN @ ELSE "Failed to load modules",
              !.modulesLoading = FALSE]

\* closeModuleForm
closeModuleForm(m) ==
    [m EXCEPT !.isModuleFormOpen = FALSE, !.moduleBeingEdited = 0, !.type = << >>]

MmRespond ==
    /\ page = "ModulesManagement"
    /\ \E th \in {"load", "op", "del"} :
          /\ mm[th].pc \in {"mut", "list"}
          /\ \E a \in Answer(mm[th], srv.modules, ModuleIds) :
                /\ mm' = [mm EXCEPT ![th] = a[1]]
                /\ srv' = [srv EXCEPT !.modules = a[2]]
    /\ UNCHANGED mmRest

\* the fetchModules of the mount effect, from its await on
MmLoadResume ==
    /\ page = "ModulesManagement"
    /\ mm.load.pc = "listAns"
    /\ mm' = [FetchModulesEnd(mm, mm.load) EXCEPT !.load = NoCall]
    /\ UNCHANGED << srv, mmRest >>

\* openModuleForm, for a new module or a listed one
MmOpenForm ==
    /\ page = "ModulesManagement"
    /\ ~mm.isModuleFormOpen
    /\ \E m \in {0} \cup (IF mm.modulesLoading THEN {} ELSE mm.modules) :
          mm' = [mm EXCEPT !.moduleBeingEdited = m,
                           !.type = IF m = 0 THEN << >> ELSE << "a" >>,
                           !.moduleFormError = "",
                           !.isModuleFormOpen = TRUE]
    /\ UNCHANGED << srv, mmRest >>

\* Cancel or the x of the form: closeModuleForm
MmCloseForm ==
    /\ page = "ModulesManagement"
    /\ mm.isModuleFormOpen
    /\ mm' = closeModuleForm(mm)
    /\ UNCHANGED << srv, mmRest >>

\* the catch and finally of handleModuleFormSubmit, without the finally
ModuleSaveFailed_StillSubmitting(m) ==
    [m EXCEPT !.moduleFormError = "Failed to save module",
              !.outcome = "failed",
              !.op = NoCall]

\* the catch and finally of handleModuleFormSubmit
ModuleSaveFailed(m) ==
    [m EXCEPT !.moduleFormError = "Failed to save module",
              !.moduleFormSubmitting = FALSE,
              !.outcome = "failed",
              !.op = NoCall]

\* handleModuleFormSubmit up to its await
handleModuleFormSubmit(m) ==
    IF Trim(m.type) = << >>
    THEN [m EXCEPT !.submitted = @ + 1, !.moduleFormError = "Module name is required."]
    ELSE [m EXCEPT !.submitted = @ + 1,
                   !.moduleFormSubmitting = TRUE,
                   !.moduleFormError = "",
                   !.op = [NoCall EXCEPT
                             !.pc = "mut",
                             !.kind = IF m.moduleBeingEdited # 0 THEN "update" ELSE "create",
                             !.id = m.moduleBeingEdited,
                             !.payload = Trim(m.type)]]

\* the user submits the form with a module name typed in
MmSubmit ==
    /\ page = "ModulesManagement"
    /\ mm.isModuleFormOpen /\ ~mm.moduleFormSubmitting
    /\ mm.submitted < MaxSubmits
    /\ \E name \in ModuleNames :
          mm' = handleModuleFormSubmit([mm EXCEPT !.type = name])
    /\ UNCHANGED << srv, mmRest >>

\* handleModuleFormSubmit from the await of the PUT or POST on
MmSaveResume ==
    /\ page = "ModulesManagement"
    /\ mm.op.pc = "mutAns" /\ mm.op.kind \in {"create", "update"}
    /\ IF mm.op.ok
       THEN mm' = [FetchModulesStart(closeModuleForm(mm)) EXCEPT !.op.pc = "list"]
       ELSE mm' = ModuleSaveFailed(mm)
    /\ UNCHANGED << srv, mmRest >>

\* handleModuleFormSubmit from the await of fetchModules on
MmSaveEnd ==
    /\ page = "ModulesManagement"
    /\ mm.op.pc = "listAns"
    /\ mm' = [FetchModulesEnd(mm, mm.op) EXCEPT !.moduleFormSubmitting = FALSE,
                                                 !.outcome = "saved",
                                                 !.op = NoCall]
    /\ UNCHANGED << srv, mmRest >>

\* handleDeleteModule, confirmed, up to its await (no module is selected)
MmDelete ==
    /\ page = "ModulesManagement"
    /\ ~mm.modulesLoading /\ mm.del.pc = "idle"
    /\ \E m \in mm.modules :
          mm' = [mm EXCEPT !.del = [NoCall EXCEPT !.pc = "mut", !.kind = "delete", !.id = m]]
    /\ UNCHANGED << srv, mmRest >>

\* handleDeleteModule from its await on: fetchModules() is called
MmDeleteResume ==
    /\ page = "ModulesManagement"
    /\ mm.del.pc = "mutAns"
    /\ IF mm.del.ok
       THEN mm' = [FetchModulesStart(mm) EXCEPT !.del.pc = "list"]
       ELSE mm' = [mm EXCEPT !.alert = "Failed to delete module", !.del = NoCall]
    /\ UNCHANGED << srv, mmRest >>

\* the fetchModules that handleDeleteModule called, from its await on
MmDeleteEnd ==
    /\ page = "ModulesManagement"
    /\ mm.del.pc = "listAns"
    /\ mm' = [FetchModulesEnd(mm, mm.del) EXCEPT !.del = NoCall]
    /\ UNCHANGED << srv, mmRest >>

NextMm ==
    \/ MmRespond
    \/ MmLoadResume
    \/ MmOpenForm
    \/ MmCloseForm
    \/ MmSubmit
    \/ MmSaveResume
    \/ MmSaveEnd
    \/ MmDelete
    \/ MmDeleteResume
    \/ MmDeleteEnd

\* ------------------------------------------------------ AddUserModal
umRest == << xvars, avars, fvars, page, srv, ec, af, nav, iq, pm, mm, ex, rm, df >>

\* what the parent's onAddUser settles with: true, false, or a rejection
\* with an Error
OnAddUserAnswers == {"true", "false", "already exists", "other error"}

\* the parent shows the modal
MountedUm ==
    /\ page = "AddUserModal"
    /\ srv = NoSrv
    /\ um = [IdleUm EXCEPT !.isOpen = TRUE]

\* onSubmit up to the await of onAddUser
UmSubmit ==
    /\ page = "AddUserModal"
    /\ um.isOpen /\ ~um.isSubmitting
    /\ um.submitted < MaxSubmits
    /\ um' = [um EXCEPT !.submissionError = "", !.isSubmitting = TRUE,
                        !.pc = "called", !.submitted = @ + 1]
    /\ UNCHANGED umRest

\* onAddUser settles
UmSettle ==
    /\ page = "AddUserModal"
    /\ um.pc = "called"
    /\ \E a \in OnAddUserAnswers : um' = [um EXCEPT !.pc = "settled", !.answer = a]
    /\ UNCHANGED umRest

\* onSubmit from the await on: try / catch / finally
UmResume ==
    /\ page = "AddUserModal"
    /\ um.pc = "settled"
    /\ um' = CASE um.answer = "true" ->
                    [um EXCEPT !.isOpen = FALSE, !.isSubmitting = FALSE,
                               !.pc = "idle", !.outcome = "saved"]
               [] um.answer = "false" ->
                    [um EXCEPT !.isSubmitting = FALSE, !.pc = "idle", !.outcome = "unsaved"]
               [] um.answer = "already exists" ->
                    [um EXCEPT !.submissionError = "An account with this email already exists.",
                               !.isSubmitting = FALSE, !.pc = "idle", !.outcome = "failed"]
               [] OTHER ->
                    [um EXCEPT !.submissionError = "other error",
                               !.isSubmitting = FALSE, !.pc = "idle", !.outcome = "failed"]
    /\ UNCHANGED umRest

\* the x of the error banner
UmDismissError ==
    /\ page = "AddUserModal"
    /\ um.isOpen /\ um.submissionError # ""
    /\ um' = [um EXCEPT !.submissionError = ""]
    /\ UNCHANGED umRest

\* Cancel: the parent's onClose; the parent opens the modal again
UmClose ==
    /\ page = "AddUserModal"
    /\ um.isOpen
    /\ um' = [um EXCEPT !.isOpen = FALSE]
    /\ UNCHANGED umRest

UmOpen ==
    /\ page = "AddUserModal"
    /\ ~um.isOpen
    /\ um' = [um EXCEPT !.isOpen = TRUE]
    /\ UNCHANGED umRest

NextUm ==
    \/ UmSubmit
    \/ UmSettle
    \/ UmResume
    \/ UmDismissError
    \/ UmClose
    \/ UmOpen

\* one of the pages is mounted, by a signed-in user
InitPages ==
    /\ \/ MountedEc /\ pm = IdlePm /\ mm = IdleMm /\ um = IdleUm
       \/ MountedPm /\ ec = IdleEc /\ mm = IdleMm /\ um = IdleUm
       \/ MountedMm /\ ec = IdleEc /\ pm = IdlePm /\ um = IdleUm
       \/ MountedUm /\ ec = IdleEc /\ pm = IdlePm /\ mm = IdleMm
    /\ af = IdleH
    /\ nav = NoNav
    /\ iq = IdleIq
    /\ ex = IdleEx /\ rm = IdleRm /\ df = IdleDf
    /\ SignedIn
    /\ IdleX
    /\ IdleF

NextPages == NextEc \/ NextPm \/ NextMm \/ NextUm

SpecPages == InitPages /\ [][NextPages]_vars

SemOptions(o) == [i \in 1..Len(o) |-> [text |-> o[i].value, correct |-> o[i].isCorrect]]

SemMcq(t) ==
    [i \in 1..Len(t.questions) |->
       [text |-> t.questions[i].questionText,
        multiple |-> IF t.questions[i].hasAM THEN t.questions[i].allowMultipleSelections
                     ELSE t.allowMultipleSelections,
        options |-> SemOptions(t.questions[i].options)]]

BlankAnswerList(b) ==
    IF b.correctAnswers # << >> THEN b.correctAnswers ELSE SplitComma(b.correctAnswer)

SemBlanks(t) ==
    [i \in 1..Len(t.blanks) |->
       [text |-> OrStr(t.blanks[i].questionText, t.blanks[i].textBefore),
        position |-> OrNum(t.blanks[i].position, i),
        answers |-> FilterBoolean(MapTrim(BlankAnswerList(t.blanks[i])))]]

SemPrompts(t) ==
    [i \in 1..Len(t.questions) |-> OrStr(t.questions[i].value, t.questions[i].questionText)]

SemContent(t) ==
    CASE t.taskType = "MCQ" -> [mcq |-> SemMcq(t)]
      [] t.taskType = "Filling Blanks" ->
           [blanks |-> SemBlanks(t), maxWords |-> t.maxWordsPerBlank]
      [] t.taskType = "Matching" ->
           [group1 |-> GroupToApi(t.group1), group2 |-> GroupToApi(t.group2),
            answers |-> t.answers]
      [] t.taskType = "QA" ->
           [prompts |-> SemPrompts(t), min |-> t.minimumWordCount,
            max |-> t.maxWordsPerAnswer]
      [] t.taskType = "Writing" ->
           [prompts |-> SemPrompts(t), min |-> t.minimumWordCount, max |-> t.maxWords]
      [] t.taskType = "Speaking" -> [prompts |-> SemPrompts(t)]
      [] OTHER -> [none |-> TRUE]

Sem(t) ==
    [taskType |-> t.taskType, title |-> t.title, description |-> t.description,
     allowedTime |-> t.allowedTime, content |-> SemContent(t)]

\* no answer given in array form contains the separator
NoCommaInArray(t) ==
    \A i \in 1..Len(t.blanks) :
       \A j \in 1..Len(t.blanks[i].correctAnswers) :
          \A k \in 1..Len(t.blanks[i].correctAnswers[j]) :
             t.blanks[i].correctAnswers[j][k] # ","

\* C1 as stated: for a task of one of the six variants, the task that
\* normalizeFetchedTask makes of the echoed payload of transformTaskForAPI
\* has the same semantic content as the task that was transformed.
C1_RoundTripEveryTask ==
    (xpc = "done" /\ xTask.taskType \in KnownTags) => Sem(xNorm) = Sem(xTask)

\* C1 as amended: for a task of one of the six variants none of whose blank
\* answers given as an array contains a comma, the task that
\* normalizeFetchedTask makes of the echoed payload of transformTaskForAPI
\* has the same semantic content as the task that was transformed.
C1_RoundTrip ==
    (xpc = "done" /\ xTask.taskType \in KnownTags /\ NoCommaInArray(xTask))
       => Sem(xNorm) = Sem(xTask)

\* a blank entered as the string "a,a" came back as the two answers a and a
C1_Witness ==
    /\ xpc = "done"
    /\ xTask.taskType = "Filling Blanks"
    /\ Len(xTask.blanks) = 1
    /\ xTask.blanks[1].correctAnswer = << "a", ",", "a" >>
    /\ xPayload.filling_blanks[1].correct_answer = << "a", ",", " ", "a" >>
    /\ xNorm.blanks[1].correctAnswers = << << "a" >>, << "a" >> >>

\* C2: the payload of transformTaskForAPI contains task_id if and only if
\* the task carries a server id (apiId), whatever id the server assigned,
\* and then task_id is that id.
C2_TaskIdIffApiId ==
    xpc # "task" =>
       /\ ("task_id" \in xPayload.keys) <=> ("apiId" \in xTask.keys)
       /\ ("apiId" \in xTask.keys) => xPayload.task_id = xTask.apiId

\* C10: a task made by normalizeFetchedTask has no populated field that
\* belongs to another variant than its type tag.
PopulatedFields(t) ==
    {f \in {"minimumWordCount", "maxWords", "maxWordsPerBlank", "maxWordsPerAnswer"} :
        t[f] # 0}
    \cup {f \in {"group1", "group2", "answers", "questions", "blanks"} : t[f] # << >>}
    \cup {f \in {"allowMultipleSelections"} : t[f]}

VariantFields(tag) ==
    CASE tag = "MCQ" -> {"allowMultipleSelections", "questions"}
      [] tag = "Filling Blanks" -> {"maxWordsPerBlank", "blanks"}
      [] tag = "Matching" -> {"group1", "group2", "answers"}
      [] tag = "QA" -> {"maxWordsPerAnswer", "minimumWordCount", "questions", "answers"}
      [] tag = "Writing" -> {"minimumWordCount", "maxWords", "questions"}
      [] tag = "Speaking" -> {"questions"}
      [] OTHER -> {}

C10_ShapeMatchesTag ==
    (xpc = "done" /\ xNorm.taskType \in KnownTags)
       => PopulatedFields(xNorm) \subseteq VariantFields(xNorm.taskType)

Transformed == xpc # "task"

\* C11: for a Matching task the payload of transformTaskForAPI has group1
\* and group2 equal to the task's group values as strings, in order, has
\* answers equal to the task's answers array when the task has one (and no
\* answers otherwise), and has no mcqs, filling_blanks or question_prompts.
C11_MatchingPayload ==
    (Transformed /\ xTask.taskType = "Matching")
       => /\ {"group1", "group2"} \subseteq xPayload.keys
          /\ Len(xPayload.group1) = Len(xTask.group1)
          /\ \A i \in 1..Len(xTask.group1) : xPayload.group1[i] = xTask.group1[i].value
          /\ Len(xPayload.group2) = Len(xTask.group2)
          /\ \A i \in 1..Len(xTask.group2) : xPayload.group2[i] = xTask.group2[i].value
          /\ ("answers" \in xPayload.keys) <=> ("answers" \in xTask.keys)
          /\ "answers" \in xTask.keys => xPayload.answers = xTask.answers
          /\ xPayload.keys \cap {"mcqs", "filling_blanks", "question_prompts"} = {}
          /\ xPayload.mcqs = << >> /\ xPayload.filling_blanks = << >>
          /\ xPayload.question_prompts = << >>

\* a Matching task with an object entry, a bare string entry and an answer
C11_Witness ==
    /\ Transformed
    /\ xTask.taskType = "Matching"
    /\ xTask.group1 = << MkGroup(TRUE, "g"), MkGroup(FALSE, "h") >>
    /\ xTask.group2 = << MkGroup(TRUE, "h") >>
    /\ xPayload.group1 = << "g", "h" >>
    /\ xPayload.answers = << "g-h" >>

\* the answers of a blank as the form holds them: the array, or the
\* entries of the comma-separated string
EnteredAnswers(b) ==
    IF b.correctAnswers # << >> THEN b.correctAnswers
    ELSE FilterBoolean(MapTrim(SplitComma(b.correctAnswer)))

NoComma(str) == \A k \in 1..Len(str) : str[k] # ","

\* C12: transformTaskForAPI serialises the answers of every blank to one
\* correct_answer string, the answers joined with ", "; normalizeFetchedTask
\* makes of every correct_answer string the list of its comma-separated
\* entries, trimmed, without the empty ones and in order.
C12_BlankAnswerSerialisation ==
    /\ (Transformed /\ xTask.taskType = "Filling Blanks")
          => /\ Len(xPayload.filling_blanks) = Len(xTask.blanks)
             /\ \A i \in 1..Len(xTask.blanks) :
                   xPayload.filling_blanks[i].correct_answer
                      = JoinCommaSpace(EnteredAnswers(xTask.blanks[i]))
    /\ (xpc = "done" /\ xNorm.taskType = "Filling Blanks")
          => /\ Len(xNorm.blanks) = Len(xFetched.filling_blanks)
             /\ \A i \in 1..Len(xNorm.blanks) :
                   LET str == xFetched.filling_blanks[i].correct_answer
                       list == xNorm.blanks[i].correctAnswers
                   IN  /\ list = FilterBoolean(MapTrim(SplitComma(str)))
                       /\ \A j \in 1..Len(list) :
                             /\ list[j] # << >> /\ NoComma(list[j])
                             /\ Head(list[j]) # " " /\ list[j][Len(list[j])] # " "

\* the answers ["a", " a"] went out as "a,  a" and came back as a and a
C12_Witness ==
    /\ xpc = "done"
    /\ xTask.taskType = "Filling Blanks"
    /\ Len(xTask.blanks) = 1
    /\ xTask.blanks[1].correctAnswers = << << "a" >>, << " ", "a" >> >>
    /\ xFetched.filling_blanks[1].correct_answer = << "a", ",", " ", " ", "a" >>
    /\ xNorm.blanks[1].correctAnswers = << << "a" >>, << "a" >> >>

\* C20 as stated: for a tag outside the six known tags the payload type is
\* the lowercase of the tag and the payload has the common fields only
\* (and task_id); for a known tag the payload type is its API name.
C20_UnknownTagCommonOnly ==
    Transformed
       => IF xTask.taskType \in KnownTags
          THEN xPayload.type \in ApiTypes
                  /\ API_TO_UI_TASK_TYPE(xPayload.type) = xTask.taskType
          ELSE /\ xPayload.type = toLowerCase(xTask.taskType)
               /\ xPayload.keys \ {"task_id"} = CommonKeys

\* C20 as amended: as stated, except that a tag outside the six known tags
\* whose lowercase is an API name (such as "mcq") gets the fields of that
\* variant; the common fields only are emitted for every other such tag.
C20_UnknownTagLowercased ==
    Transformed
       => IF xTask.taskType \in KnownTags
          THEN xPayload.type \in ApiTypes
                  /\ API_TO_UI_TASK_TYPE(xPayload.type) = xTask.taskType
          ELSE /\ xPayload.type = toLowerCase(xTask.taskType)
               /\ CommonKeys \subseteq xPayload.keys
               /\ toLowerCase(xTask.taskType) \notin ApiTypes
                     => xPayload.keys \ {"task_id"} = CommonKeys

\* a task tagged Essay went out with type essay and an id
C20_Witness ==
    /\ Transformed
    /\ xTask.taskType = "Essay"
    /\ xPayload.type = "essay"
    /\ xPayload.keys = CommonKeys \cup {"task_id"}

\* ------------------------------------------------ auth session: claims
Handles(c) == req[c].st = "answered" /\ req'[c].st = "done"

C4_SessionTornDownOn401 ==
    /\ [][\A c \in ApiFetchCallers :
            (Handles(c) /\ req[c].resp.status = 401 /\ currentUser # "null")
               => token' = "" /\ currentUser' = "null"]_vars
    /\ [](currentUser # "null" => token # "")

\* the profile fetch obtained a profile: a 2xx response whose body parsed
ProfileFetched(r) == r.status \in 200..299 /\ r.kind # "null"

LoginComplete(r) ==
    r.status = 200 /\ r.kind = "login" /\ r.code = 200 /\ r.st = "success"
       /\ r.tok # "" /\ r.user # "none"

\* C6 as stated: login stores the token and sets currentUser when the
\* response reports success with a token and a user object; in every other
\* case it throws and changes neither the stored token nor currentUser.
C6_LoginAllOrNothing ==
    [][Handles("login")
         => IF LoginComplete(req["login"].resp)
            THEN /\ token' = req["login"].resp.tok
                 /\ currentUser' = normalizeRole(req["login"].resp.user)
                 /\ ~req'["login"].threw
            ELSE /\ req'["login"].threw
                 /\ currentUser' = currentUser
                 /\ token' = token]_vars

\* C6 as amended: as stated, except that a login answered 401 removes the
\* stored token and the cached user (handleResponse); currentUser is
\* unchanged in every failing case and the token in every other failing
\* case.
C6_LoginAtomic ==
    [][Handles("login")
         => IF LoginComplete(req["login"].resp)
            THEN /\ token' = req["login"].resp.tok
                 /\ currentUser' = normalizeRole(req["login"].resp.user)
                 /\ ~req'["login"].threw
            ELSE /\ req'["login"].threw
                 /\ currentUser' = currentUser
                 /\ IF req["login"].resp.status = 401
                    THEN token' = "" /\ storedUser' = FALSE
                    ELSE token' = token /\ storedUser' = storedUser]_vars

\* a user without a staff role is signed in and a further login was
\* answered 401: the token is gone, currentUser is as before
C6_Witness ==
    /\ req["login"].st = "done"
    /\ req["login"].resp.status = 401
    /\ req["login"].threw
    /\ currentUser = "User"
    /\ token = ""

\* ------------------------------------------------ ExerciseForm: claims
UploadSteps == {"passage", "image", "recording"}

Phase(step) == IF step \in UploadSteps THEN 1 ELSE IF step = "exercise" THEN 2 ELSE 3

\* the request did not complete successfully: it failed, or it was answered
\* without the id the form needs from it
Unsuccessful(e) ==
    \/ e.st = "failed"
    \/ e.st = "ok" /\ e.rid = 0
         /\ (e.step \in UploadSteps \/ (e.step = "exercise" /\ e.method = "POST"))

TaskEntries == SelectSeq(log, LAMBDA e : e.step = "task")

\* C7: onSaveExercise sends its requests strictly in sequence: a request is
\* sent only when every earlier one has completed successfully, the asset
\* uploads required for the submitted data come before the exercise
\* request, the exercise request before the task requests, and the task
\* requests follow the order of the task list.
C7_StrictSequence ==
    /\ \A i \in 1..(Len(log) - 1) : log[i].st = "ok" /\ ~Unsuccessful(log[i])
    /\ \A i \in 1..Len(log) : \A j \in i..Len(log) :
          Phase(log[i].step) <= Phase(log[j].step)
    /\ Len(log) <= Len(sv.plan)
    /\ \A i \in 1..Len(log) : log[i].step = sv.plan[i]
    /\ \A step \in UploadSteps :
          ((\E i \in 1..Len(log) : log[i].step = "exercise")
              /\ (\E i \in 1..Len(sv.plan) : sv.plan[i] = step))
             => \E i \in 1..Len(log) : log[i].step = step /\ log[i].st = "ok"
    /\ Len(TaskEntries) <= Len(sv.tasks)
    /\ \A k \in 1..Len(TaskEntries) : TaskEntries[k].local = sv.tasks[k].id

\* a save went through a passage upload, the exercise and two tasks
C7_Witness ==
    /\ sv.pc = "succeeded"
    /\ Len(log) = 4
    /\ log[1].step = "passage" /\ log[2].step = "exercise"
    /\ log[3].step = "task" /\ log[4].step = "task"
    /\ log[4].st = "ok"

\* C8: when a step of onSaveExercise fails (a request fails, an upload is
\* answered without an id, POST /exercises is answered without an exercise
\* id), no later request of the sequence is sent, the error alert is
\* shown, the form stays open and isSaving is false again.
C8_FailureHalts ==
    /\ [](\A i \in 1..Len(log) :
            Unsuccessful(log[i])
               => /\ i = Len(log)
                  /\ fnet.st = "idle"
                  /\ sv.pc = "failed"
                  /\ formOpen /\ ~isSaving)
    /\ [][(fnet.st = "answered"
            /\ (fnet.resp.status \notin 200..299
                  \/ (fnet.resp.id = 0
                        /\ (sv.plan[sv.i] \in UploadSteps
                              \/ (sv.plan[sv.i] = "exercise" /\ ~props.isEditing)))))
             => /\ alertMsg' = "failed"
                /\ formOpen' /\ ~isSaving'
                /\ fnet'.st = "idle"
                /\ Len(log') = Len(log)]_vars

\* the request for the first of two tasks failed: the second was not sent
C8_Witness ==
    /\ sv.pc = "failed"
    /\ Len(sv.tasks) = 2
    /\ log[Len(log)].step = "task" /\ log[Len(log)].st = "failed"
    /\ log[Len(log)].local = sv.tasks[1].id
    /\ alertMsg = "failed" /\ formOpen /\ ~isSaving

Range(f) == {f[i] : i \in DOMAIN f}

\* C9: a local task has no server id until its POST /tasks has succeeded;
\* from then on the local task carries the server-assigned id (apiId), so
\* that no later request of the form creates it again.
C9_ServerIdAttached ==
    /\ \A i \in 1..Len(currentTasks) :
          (currentTasks[i].id \in {Uuid(n) : n \in 0..MaxNewTasks}
             /\ currentTasks[i].id \notin Range(createdTasks))
             => ~HasApiId(currentTasks[i])
    /\ \A i \in 1..Len(currentTasks) :
          (formOpen /\ currentTasks[i].id \in Range(createdTasks))
             => HasApiId(currentTasks[i])
    /\ \A i \in 1..Len(log) :
          (log[i].method = "POST" /\ log[i].url = "/tasks" /\ log[i].st = "sent")
             => log[i].local \notin Range(createdTasks)

\* ----------------------------------------------------- Inquiries: claims
\* C17: a reply request is issued only for the selected inquiry, while its
\* status is 'submitted' and it has no reply, with a non-blank message and
\* no reply request in flight; once a reply response with the ticket has
\* been applied for an inquiry, the inquiry carries the reply, no further
\* reply request is issued for it, and its list entry and the detail view
\* agree on status and reply.
C17_AtMostOneReply ==
    /\ [][iq'.requests # iq.requests
             => /\ iq.selectedInquiry.id # 0
                /\ iq'.reply.id = iq.selectedInquiry.id
                /\ iq.selectedInquiry.status = "submitted"
                /\ iq.selectedInquiry.reply = << >>
                /\ iq'.reply.msg # << >>
                /\ ~iq.submitting /\ iq.reply.pc = "idle"
                /\ iq.selectedInquiry.id \notin iq.replied]_vars
    /\ [](\A id \in iq.replied :
             /\ id \in DOMAIN iq.inquiries => iq.inquiries[id].reply # << >>
             /\ iq.selectedInquiry.id = id /\ id \in DOMAIN iq.inquiries
                   => /\ iq.selectedInquiry.status = iq.inquiries[id].status
                      /\ iq.selectedInquiry.reply = iq.inquiries[id].reply)

\* --------------------------------------------------- LoggedInApp: claims
\* C16: LoggedInApp is on the screen only for a session whose normalised
\* role is SuperAdmin, Admin or Editor; a profile whose role normalises to
\* anything else (an unrecognised role normalises to User) leaves the
\* login page; and Promo Codes or Promo Modules is the active page only
\* when the role is SuperAdmin or Admin.
C16_RoleGates ==
    /\ nav.mounted /\ Rendered => currentUser \in StaffRoles
    /\ View = "LoggedInApp" => currentUser \in StaffRoles
    /\ LET c == req["checkAuth"]
       IN  c.st = "done" /\ c.resp.kind = "user" /\ req["login"].st = "idle"
           /\ normalizeRole(c.resp.user) \notin StaffRoles
              => View = "LoginPage" /\ (Rendered => ~nav.mounted)
    /\ normalizeRole("manager") = "User"
    /\ nav.mounted /\ Rendered /\ nav.activePage \in promoNavItems
          => currentUser \in {"SuperAdmin", "Admin"}
    /\ nav.mounted /\ Rendered /\ renderContent(nav.activePage) \in promoNavItems
          => currentUser \in {"SuperAdmin", "Admin"}

\* an Editor has opened the submenu and left the Dashboard
C16_Witness ==
    /\ nav.mounted /\ Rendered
    /\ currentUser = "Editor"
    /\ nav.isExercisesExpanded
    /\ nav.activePage = "Users Management"

\* ------------------------------------------------------ apiFetch: claims
\* C14: the request of apiFetch has an Authorization header, the bearer
\* token, exactly when a token is stored; it has the JSON content type when
\* the body is not a FormData, and for a FormData body it has no content
\* type and the body is the one passed in.
C14_RequestHeaders ==
    af.pc \in {"sent", "answered"}
       => /\ ("Authorization" \in DOMAIN af.config.headers) <=> (af.token # "")
          /\ af.token # "" => af.config.headers["Authorization"] = "Bearer " \o af.token
          /\ af.options.body # "formdata"
                => /\ "Content-Type" \in DOMAIN af.config.headers
                   /\ af.config.headers["Content-Type"] = "application/json"
          /\ af.options.body = "formdata"
                => /\ "Content-Type" \notin DOMAIN af.config.headers
                   /\ af.config.body = "formdata"
          /\ af.config.body = af.options.body

\* a FormData body sent with a stored token
C14_Witness ==
    /\ af.pc = "sent"
    /\ af.options.body = "formdata"
    /\ af.token = "tokA"
    /\ DOMAIN af.config.headers = {"Authorization"}

\* the first of message, error and detail that holds a value
Specific(data) ==
    IF Truthy(data.message) THEN data.message
    ELSE IF Truthy(data.error) THEN data.error
    ELSE IF Truthy(data.detail) THEN data.detail
    ELSE Absent

StatusText(response) ==
    IF response.statusText # "" THEN response.statusText
    ELSE "HTTP " \o ToString(response.status)

\* C15 as stated: for a non-2xx response handleResponse throws an error
\* with the status and the parsed body whose message is the first of
\* body.message, body.error and body.detail that holds a value, an array
\* joined, and the status text when none does; for a 2xx response it
\* returns the parsed body.
C15_ErrorTextArraysJoined ==
    af.pc = "done"
       => IF af.response.status \in 200..299
          THEN ~af.result.threw /\ af.result.data = af.response.data
          ELSE /\ af.result.threw
               /\ af.result.status = af.response.status
               /\ af.result.data = af.response.data
               /\ LET v == Specific(af.response.data)
                  IN  af.result.message =
                         (CASE v.kind = "absent" -> StatusText(af.response)
                            [] v.kind = "array" -> Join(v.items, "\n")
                            [] OTHER -> v.str)

\* C15 as amended: as stated, except that an array is joined (with
\* newlines) only when it is body.message; an array in body.error or
\* body.detail appears as its JSON text, as an object does in all three.
C15_ErrorText ==
    af.pc = "done"
       => IF af.response.status \in 200..299
          THEN ~af.result.threw /\ af.result.data = af.response.data
          ELSE /\ af.result.threw
               /\ af.result.status = af.response.status
               /\ af.result.data = af.response.data
               /\ LET data == af.response.data
                      v == Specific(data)
                  IN  af.result.message =
                         (CASE v.kind = "absent" -> StatusText(af.response)
                            [] v.kind = "array" /\ Truthy(data.message) -> Join(v.items, "\n")
                            [] v.kind = "array" -> "[\"" \o v.items[1] \o "\",\"" \o v.items[2] \o "\"]"
                            [] OTHER -> v.str)

\* a 400 whose body has an empty message and an array of errors
C15_Witness ==
    /\ af.pc = "done"
    /\ af.response.status = 400
    /\ af.response.data.message = StrVal("")
    /\ af.response.data.error = ArrVal(<< "e", "x" >>)
    /\ af.result.threw
    /\ af.result.message = "[\"e\",\"x\"]"

\* ------------------------------------------------------ the pages: claims
\* C13: a call of handleSubmit of the email-config form with a
\* provider_config that is empty or does not parse as JSON sends no create
\* or update request, leaves the modal open and the submitting flag false;
\* a request is sent only by a call of handleSubmit whose provider_config
\* parses, and it carries that provider_config.
C13_InvalidJsonBlocksSubmit ==
    /\ [][ec'.submitted # ec.submitted
            => IF JsonParses(ec'.provider_config)
               THEN /\ ec'.requests = ec.requests + 1
                    /\ ec'.op.pc = "mut" /\ ec'.op.payload = ec'.provider_config
               ELSE /\ ec'.requests = ec.requests
                    /\ ec'.op = ec.op /\ srv' = srv
                    /\ ec'.isModalOpen /\ ~ec'.isSubmitting
                    /\ ec'.alert # ""]_vars
    /\ [][ec'.requests # ec.requests => ec'.submitted # ec.submitted]_vars
    /\ [](ec.op.kind \in {"create", "update"}
            => ec.op.payload # << >> /\ JsonParses(ec.op.payload))

\* the form was submitted with the text {1 and nothing was sent
C13_Witness ==
    /\ ec.isModalOpen
    /\ ec.provider_config = << "{", "1" >>
    /\ ec.submitted = 1 /\ ec.requests = 0
    /\ ec.alert # ""
    /\ ~ec.isSubmitting

\* C18: when a page handles the successful answer to a create, update or
\* delete request, it issues a list fetch and leaves the displayed list as
\* it is until that fetch is answered; the list then displayed is the one
\* the backend returned.
C18_RefetchAfterMutation ==
    [][/\ ec.op.pc = "mutAns" /\ ec.op.ok /\ ec'.op # ec.op
             => ec'.op.pc = "list" /\ ec'.configs = ec.configs
       /\ ec.op.pc = "listAns" /\ ec.op.ok /\ ec'.op # ec.op
             => ec'.configs = ec.op.list
       /\ \A th \in {"op", "del"} :
             /\ mm[th].pc = "mutAns" /\ mm[th].ok /\ mm'[th] # mm[th]
                   => mm'[th].pc = "list" /\ mm'.modules = mm.modules
             /\ mm[th].pc = "listAns" /\ mm[th].ok /\ mm'[th] # mm[th]
                   => mm'.modules = mm[th].list
       /\ \A k \in 1..MaxDeletes :
             pm.dels[k].pc = "mutAns" /\ pm.dels[k].ok /\ pm'.dels[k] # pm.dels[k]
                => /\ pm'.load.pc = "list" \/ pm'.dels[k].pc = "list"
                   /\ pm'.promos = pm.promos]_vars

\* a page handles the failure of a form submission
EcSaveFails ==
    /\ ec.op.pc = "mutAns" /\ ec.op.kind \in {"create", "update"} /\ ~ec.op.ok
    /\ ec'.op # ec.op

MmSaveFails ==
    /\ mm.op.pc = "mutAns" /\ mm.op.kind \in {"create", "update"} /\ ~mm.op.ok
    /\ mm'.op # mm.op

UmSaveFails ==
    /\ um.pc = "settled" /\ um.answer \in {"already exists", "other error"}
    /\ um'.pc # um.pc

\* the failure is caught: the handler ends normally with an error message
\* stored, the modal as it was and the submitting flag false
FailureCaught ==
    /\ EcSaveFails => /\ ec'.error # "" /\ ec'.outcome = "failed"
                      /\ ec.isModalOpen /\ ec'.isModalOpen
                      /\ ~ec'.isSubmitting
    /\ MmSaveFails => /\ mm'.moduleFormError # "" /\ mm'.outcome = "failed"
                      /\ mm'.isModuleFormOpen = mm.isModuleFormOpen
                      /\ ~mm'.moduleFormSubmitting
    /\ UmSaveFails => /\ um'.submissionError # "" /\ um'.outcome = "failed"
                      /\ um'.isOpen = um.isOpen
                      /\ ~um'.isSubmitting

\* after a failure the open form can be submitted again
CanResubmit ==
    /\ ec.outcome = "failed" /\ ec.isModalOpen /\ ~ec.isSubmitting /\ ec.submitted < MaxSubmits
          => ENABLED EcSubmit
    /\ mm.outcome = "failed" /\ mm.isModuleFormOpen /\ ~mm.moduleFormSubmitting
       /\ mm.submitted < MaxSubmits
          => ENABLED MmSubmit
    /\ um.outcome = "failed" /\ um.isOpen /\ ~um.isSubmitting /\ um.submitted < MaxSubmits
          => ENABLED UmSubmit

C21_OfficialExerciseId ==
    ~props.isEditing
       => /\ \A i \in 1..Len(log) :
                log[i].step = "task"
                   => /\ log[i].exercise_id # TempExerciseId
                      /\ \E j \in 1..(i - 1) :
                            /\ log[j].step = "exercise" /\ log[j].method = "POST"
                            /\ log[j].n = log[i].n
                            /\ log[j].st = "ok" /\ log[j].rid # 0
                            /\ log[i].exercise_id = log[j].rid
          /\ (\E j \in 1..Len(log) :
                 log[j].step = "exercise" /\ log[j].st = "ok" /\ log[j].rid = 0)
                => TaskEntries = << >>

\* a new exercise was created and its second task sent with the returned id
C21_Witness ==
    /\ ~props.isEditing
    /\ exerciseId = TempExerciseId
    /\ Len(TaskEntries) = 2
    /\ TaskEntries[2].exercise_id = 7

\* C22: onSaveExercise sends no request when the trimmed title is blank,
\* or when the module type is Reading and there is no task: isSaving stays
\* false and the state of the form is unchanged; a save that starts has a
\* title and, for Reading, a task.
C22_NoRequestWhenInvalid ==
    /\ [][alertMsg' \in {"title", "tasks"} /\ alertMsg' # alertMsg
             => /\ ~isSaving /\ ~isSaving'
                /\ log' = log /\ fnet' = fnet /\ sv' = sv
                /\ Refusal(<< "a" >>) = "tasks" \/ alertMsg' = "title"
                /\ UNCHANGED << currentTasks, pendingTasksToUpload, exerciseId, passageId,
                                imageId, recordingId, initialPassageText, formOpen >>]_vars
    /\ [][sv'.n # sv.n
             => /\ sv'.exerciseTitle # << >>
                /\ ~(props.moduleType = "Reading" /\ currentTasks = << >>)]_vars
    /\ [](Refusal(<< " " >>) = "title")

\* a Reading form without tasks was submitted with a title
C22_Witness ==
    /\ props.moduleType = "Reading"
    /\ currentTasks = << >>
    /\ alertMsg = "tasks"
    /\ sv.n = 0 /\ log = << >> /\ ~isSaving /\ formOpen
    /\ selectedImageFile

\* C23: a task is sent with PUT /tasks/{id} exactly when its payload
\* carries task_id, the id of the URL being that task_id, and with
\* POST /tasks exactly when its payload carries no task_id.
C23_MethodMatchesTaskId ==
    \A i \in 1..Len(TaskEntries) :
       LET e == TaskEntries[i]
       IN  /\ e.method \in {"PUT", "POST"}
           /\ (e.method = "PUT") <=> e.hasTaskId
           /\ e.method = "PUT"
                 => e.url = "/tasks/{id}" /\ e.urlId = e.task_id /\ e.task_id # 0
           /\ e.method = "POST" => e.url = "/tasks" /\ e.urlId = 0

\* one save updated a fetched task and created a new one
C23_Witness ==
    /\ Len(TaskEntries) = 2
    /\ TaskEntries[1].method = "PUT" /\ TaskEntries[1].hasTaskId
    /\ TaskEntries[2].method = "POST" /\ ~TaskEntries[2].hasTaskId
    /\ TaskEntries[1].n = TaskEntries[2].n

\* C24: when a save fails after part of its sequence succeeded and the
\* form is submitted again, nothing is created twice: no second successful
\* POST /exercises and no second successful POST /tasks of the same local
\* task.
C24_NothingCreatedTwice ==
    /\ createdExercises <= 1
    /\ \A i, j \in 1..Len(createdTasks) : createdTasks[i] = createdTasks[j] => i = j

\* ------------------------------- ModulesManagement: the exercise view
MaxExFetches == 3

exRest == << xvars, avars, fvars, page, srv, ec, af, nav, iq, pm, mm, um, rm, df >>

\* the lists GET /exercises?module_id=m may answer: none, or one exercise
\* with or without its module_id (0 is absent)
RawExercises(m) ==
    {<< >>, << [exercise_id |-> 10 * m + 1, module_id |-> m] >>,
     << [exercise_id |-> 10 * m + 1, module_id |-> 0] >>}

\* normalizeExercise(raw, fallbackModuleId): the fields the list shows
normalizeExercise(raw, fallbackModuleId) ==
    [id |-> raw.exercise_id,
     module_id |-> IF raw.module_id # 0 THEN raw.module_id ELSE fallbackModuleId]

\* the modules are listed and none is selected
InitE ==
    /\ ex = IdleEx
    /\ page = "ModulesManagement"
    /\ srv = [NoSrv EXCEPT !.modules = ModuleIds]
    /\ mm = [IdleMm EXCEPT !.modules = ModuleIds, !.modulesLoading = FALSE]
    /\ ec = IdleEc /\ af = IdleH /\ nav = NoNav /\ iq = IdleIq
    /\ pm = IdlePm /\ um = IdleUm /\ rm = IdleRm /\ df = IdleDf
    /\ SignedIn /\ IdleX /\ IdleF

\* fetchExercises(moduleId) up to its await
FetchExercisesStart(e, moduleId) ==
    [e EXCEPT !.exercisesLoading = TRUE, !.exercisesError = "",
              !.calls = Append(@, [moduleId |-> moduleId, pc |-> "sent", list |-> << >>])]

\* handleSelectModule(module), from the list of modules
ExSelect ==
    /\ ex.selectedModule = 0
    /\ Len(ex.calls) < MaxExFetches
    /\ \E m \in mm.modules :
          ex' = FetchExercisesStart([ex EXCEPT !.selectedModule = m], m)
    /\ UNCHANGED exRest

\* the Refresh button of the exercise view
ExRefresh ==
    /\ ex.selectedModule # 0
    /\ Len(ex.calls) < MaxExFetches
    /\ ex' = FetchExercisesStart(ex, ex.selectedModule)
    /\ UNCHANGED exRest

\* handleBackToModules
ExBack ==
    /\ ex.selectedModule # 0
    /\ ex' = [ex EXCEPT !.selectedModule = 0, !.exercises = << >>,
                        !.exercisesError = ""]
    /\ UNCHANGED exRest

\* the backend answers one of the calls in flight, in any order
ExRespond ==
    /\ \E k \in 1..Len(ex.calls) :
          /\ ex.calls[k].pc = "sent"
          /\ \/ \E list \in RawExercises(ex.calls[k].moduleId) :
                   ex' = [ex EXCEPT !.calls[k].pc = "ok", !.calls[k].list = list]
             \/ ex' = [ex EXCEPT !.calls[k].pc = "failed"]
    /\ UNCHANGED exRest

\* fetchExercises from its await on
ExResume ==
    /\ \E k \in 1..Len(ex.calls) :
          LET c == ex.calls[k]
          IN  /\ c.pc \in {"ok", "failed"}
              /\ ex' = [ex EXCEPT
                          !.exercises =
                             IF c.pc = "ok"
                             THEN [i \in 1..Len(c.list) |->
                                     normalizeExercise(c.list[i], c.moduleId)]
                             ELSE << >>,
                          !.exercisesError = IF c.pc = "ok" THEN @
                                             ELSE "Failed to load exercises",
                          !.exercisesLoading = FALSE,
                          !.calls[k].pc = "done"]
    /\ UNCHANGED exRest

NextE == ExSelect \/ ExRefresh \/ ExBack \/ ExRespond \/ ExResume

SpecE == InitE /\ [][NextE]_vars

\* ------------------------------------------- ModulesManagement: claims
\* C25: once loading has finished, the exercise list shown is the result
\* of the fetch issued for the selected module, and is empty when no module
\* is selected; a late response for another module never overwrites it.
C25_ListOfSelectedModule ==
    ~ex.exercisesLoading
       => /\ ex.selectedModule = 0 => ex.exercises = << >>
          /\ \A i \in 1..Len(ex.exercises) :
                ex.exercises[i].id = 10 * ex.selectedModule + 1

\* --------------------------------------- ExerciseForm: removing tasks
remRest == << page, srv, ec, af, nav, iq, pm, mm, um, ex, df >>

\* prev.filter(t => t.id !== taskId)
RemoveById(list, taskId) == SelectSeq(list, LAMBDA t : t.id # taskId)

\* DELETE is sent whatever the task
DeleteNeeded_Always(taskToRemove) == TRUE

\* if (taskToRemove?.apiId)
DeleteNeeded(taskToRemove) == HasApiId(taskToRemove)

\* handleRemoveTask(taskId) up to its await, or to its end when the user
\* does not confirm or the task has no server id
RemoveTask ==
    /\ Interactive
    /\ \E i \in 1..Len(currentTasks), confirmed \in BOOLEAN :
          LET taskToRemove == currentTasks[i]
              taskId == taskToRemove.id
          IN  IF ~confirmed
              THEN UNCHANGED << currentTasks, pendingTasksToUpload, rm >>
              ELSE /\ currentTasks' = RemoveById(currentTasks, taskId)
                   /\ pendingTasksToUpload' = RemoveById(pendingTasksToUpload, taskId)
                   /\ rm' = [rm EXCEPT
                               !.removed = @ \cup {taskId},
                               !.calls = IF DeleteNeeded(taskToRemove)
                                         THEN Append(@, [apiId |-> taskToRemove.apiId,
                                                         local |-> taskId,
                                                         pc |-> "sent"])
                                         ELSE @]
    /\ UNCHANGED << props, exerciseId, passageId, imageId, recordingId,
                    initialPassageText, selectedImageFile, selectedRecordingFile,
                    isSaving, isFetching, formOpen, alertMsg, uuids, sv, fnet, log,
                    createdExercises, createdTasks, xvars, avars, remRest >>

\* handleRemoveTask from its await on: DELETE /tasks/{apiId} has been
\* answered, and the catch shows the alert when apiFetch threw
RmResume ==
    /\ \E k \in 1..Len(rm.calls), status \in {200, 500} :
          LET r == [status |-> status]
          IN  /\ rm.calls[k].pc = "sent"
              /\ AfterResponse(r)
              /\ alertMsg' = IF HandleResponse(r).threw THEN "deleteFailed" ELSE alertMsg
              /\ rm' = [rm EXCEPT !.calls[k].pc = IF HandleResponse(r).threw
                                                  THEN "failed" ELSE "ok"]
    /\ UNCHANGED << props, exerciseId, passageId, imageId, recordingId,
                    initialPassageText, selectedImageFile, selectedRecordingFile,
                    currentTasks, pendingTasksToUpload, isSaving, isFetching,
                    formOpen, uuids, sv, fnet, log, createdExercises, createdTasks,
                    xvars, remRest >>

\* the form of a Speaking exercise, new or fetched for editing; the
\* handlers of the task lists do not read the module type
InitR == InitF /\ props.moduleType = "Speaking"

NextR ==
    \/ FetchDetailsDone
    \/ SelectFile
    \/ AddTask
    \/ EditTask
    \/ RemoveTask
    \/ RmResume
    \/ SaveStart
    \/ RespondForm
    \/ SaveResume

SpecR == InitR /\ [][NextR]_vars

\* ------------------------------------ ExerciseForm: claims on the lists
Ids(list) == [i \in 1..Len(list) |-> list[i].id]

\* the task entries of the save in progress or just ended
SentNow == SelectSeq(log, LAMBDA e : e.step = "task" /\ e.n = sv.n)

C27_RemoveTask ==
    /\ [][rm'.removed # rm.removed
             => LET taskId == CHOOSE id \in rm'.removed : id \notin rm.removed
                    kept == {i \in 1..Len(currentTasks) : currentTasks[i].id # taskId}
                    gone == {i \in 1..Len(currentTasks) : currentTasks[i].id = taskId}
                IN  /\ Cardinality(gone) = 1
                    /\ Len(currentTasks') = Cardinality(kept)
                    /\ \A i \in kept :
                          currentTasks'[Cardinality({j \in kept : j <= i})] = currentTasks[i]
                    /\ \A i \in 1..Len(pendingTasksToUpload') :
                          pendingTasksToUpload'[i].id # taskId
                    /\ Len(pendingTasksToUpload')
                          = Cardinality({i \in 1..Len(pendingTasksToUpload) :
                                           pendingTasksToUpload[i].id # taskId})
                    /\ \A i \in gone :
                          IF currentTasks[i].apiId > 0
                          THEN /\ Len(rm'.calls) = Len(rm.calls) + 1
                               /\ rm'.calls[Len(rm'.calls)].apiId = currentTasks[i].apiId
                          ELSE rm'.calls = rm.calls]_vars
    /\ [][rm'.calls # rm.calls /\ rm'.removed = rm.removed
             => currentTasks' = currentTasks
                /\ pendingTasksToUpload' = pendingTasksToUpload]_vars
    /\ [](\A id \in rm.removed :
             /\ \A i \in 1..Len(currentTasks) : currentTasks[i].id # id
             /\ \A i \in 1..Len(pendingTasksToUpload) : pendingTasksToUpload[i].id # id)

\* a fetched task was removed next to a new one, its DELETE failed, and
\* the new task is still listed
C27_Witness ==
    /\ Len(rm.calls) = 1
    /\ rm.calls[1].pc = "failed"
    /\ alertMsg = "deleteFailed"
    /\ Len(currentTasks) = 1
    /\ ~HasApiId(currentTasks[1])
    /\ pendingTasksToUpload = currentTasks

\* ------------------------------------------------- EmailConfigs: claims
\* C28: in the EmailConfigs page the success banner and the error banner
\* are never both set.
C28_OneBanner == ~(ec.success # "" /\ ec.error # "")

\* ------------------------------------- emailApi: functions using fetch
dfRest == << xvars, avars, fvars, page, srv, ec, af, nav, iq, pm, mm, um, ex, rm >>

DirectFns == {"createConfig", "createTemplate", "sendTestEmail"}

\* the message each function falls back to
DirectFallback(fn) ==
    CASE fn = "createConfig" -> "Failed to create config"
      [] fn = "createTemplate" -> "Failed to create template"
      [] OTHER -> "Failed to send test email"

\* `Bearer ${token}` with token = localStorage.getItem('authToken'), which
\* is null when nothing is stored
DirectHeaders(tok) ==
    [k \in {"Content-Type", "accept", "authorization"} |->
       CASE k = "Content-Type" -> "application/x-www-form-urlencoded"
         [] k = "accept" -> "application/json"
         [] OTHER -> "Bearer " \o (IF tok = "" THEN "null" ELSE tok)]

\* the bodies of a response: JSON that does not parse, an object without
\* message, an object with one
DirectBodies == {"unparsable", "", "Server says no"}

\* one of the functions is called, with or without its optional field
\* (recipientName, is_active), a token being stored or not
InitD ==
    /\ \E fn \in DirectFns, tok \in HTokens, opt \in BOOLEAN :
          df = [IdleDf EXCEPT !.pc = "called", !.fn = fn, !.token = tok,
                              !.storedUser = (tok # ""), !.optional = opt]
    /\ page = "none" /\ srv = NoSrv /\ ec = IdleEc /\ af = IdleH /\ nav = NoNav
    /\ iq = IdleIq /\ pm = IdlePm /\ mm = IdleMm /\ um = IdleUm
    /\ ex = IdleEx /\ rm = IdleRm
    /\ IdleX /\ IdleA /\ IdleF

\* the function up to its await of fetch
DfFetch ==
    /\ df.pc = "called"
    /\ df' = [df EXCEPT !.pc = "sent", !.headers = DirectHeaders(df.token)]
    /\ UNCHANGED dfRest

\* the backend answers
DfRespond ==
    /\ df.pc = "sent"
    /\ \E st \in {200, 400, 401, 500}, b \in DirectBodies :
          df' = [df EXCEPT !.pc = "answered", !.status = st, !.message = b]
    /\ UNCHANGED dfRest

\* the function from its await on: if (!response.ok) throw new
\* Error(error.message || fallback); localStorage is not written
DfHandle ==
    /\ df.pc = "answered"
    /\ LET ok == df.status \in 200..299
           parsed == IF df.message = "unparsable" THEN DirectFallback(df.fn)
                     ELSE df.message
       IN  df' = [df EXCEPT !.pc = "done",
                            !.threw = ~ok,
                            !.error = IF ok THEN ""
                                      ELSE OrStr(parsed, DirectFallback(df.fn))]
    /\ UNCHANGED dfRest

NextD == DfFetch \/ DfRespond \/ DfHandle

SpecD == InitD /\ [][NextD]_vars

\* ----------------------------------------------------- emailApi: claims
\* C29: a request of createConfig, createTemplate or sendTestEmail carries
\* an Authorization header only when a token is stored, and a 401 response
\* clears the stored credentials as it does for apiFetch.
C29_DirectFetchLikeApiFetch ==
    /\ df.pc \in {"sent", "answered", "done"}
          => (df.token # ""
                <=> DOMAIN df.headers \cap {"Authorization", "authorization"} # {})
    /\ df.pc = "done" /\ df.status = 401 => df.token = "" /\ ~df.storedUser

\* ---------------------------------------------------- Sidebar: claims
\* C30: the page set by clicking an item the Sidebar shows is rendered as
\* that item's own screen, not as the Dashboard fallback; and every screen
\* App renders can be reached from the Sidebar by some staff role.
C30_ItemsAndScreensMatch ==
    /\ nav.mounted /\ Rendered => renderContent(nav.activePage) = nav.activePage
    /\ \A screen \in {"Dashboard", "Users Management", "Exercises Management",
                      "Promo Codes", "Promo Modules", "Inquiries",
                      "Contact Form Submissions"} :
          renderContent(screen) = screen
             => \E role \in StaffRoles, expanded \in BOOLEAN :
                   screen \in NavButtons(role, expanded)

====
